---- MODULE Spec2Model ----
(***************************************************************************)
(* SafeCloud backend: the scan controller (single-flight result cache),    *)
(* the S3 scanner service (orchestration, per-object scan, aggregation)    *)
(* and the sensitive-data pattern registry.                                *)
(*                                                                         *)
(* Text is a sequence of one-character strings, so that the regular        *)
(* expressions of the registry and the extension test of the binary        *)
(* filter are computed, not assumed.                                       *)
(***************************************************************************)
EXTENDS Integers, Sequences, FiniteSets, TLC

(***************************************************************************)
(* Characters                                                              *)
(***************************************************************************)
UpperSeq ==
  <<"A", "B", "C", "D", "E", "F", "G", "H", "I", "J", "K", "L", "M",
    "N", "O", "P", "Q", "R", "S", "T", "U", "V", "W", "X", "Y", "Z">>

LowerSeq ==
  <<"a", "b", "c", "d", "e", "f", "g", "h", "i", "j", "k", "l", "m",
    "n", "o", "p", "q", "r", "s", "t", "u", "v", "w", "x", "y", "z">>

Upper ==
  {UpperSeq[k] : k \in 1..Len(UpperSeq)}

Lower ==
  {LowerSeq[k] : k \in 1..Len(LowerSeq)}

Digit ==
  {"0", "1", "2", "3", "4", "5", "6", "7", "8", "9"}

\* \s of the regular expressions and the characters String.trim() strips
Whitespace ==
  {" ", "\t", "\n", "\r", "\f"}

\* the characters "." does not match
LineTerminator ==
  {"\n", "\r"}

\* \w : the characters on whose edge \b holds
WordChar ==
  Upper \cup Lower \cup Digit \cup {"_"}

\* String.prototype.toLowerCase on one character
ToLowerChar(c) ==
  IF c \in Upper
    THEN LowerSeq[CHOOSE k \in 1..Len(UpperSeq) : UpperSeq[k] = c]
    ELSE c

\* the upper-case counterpart (the canonical form the "i" flag compares)
ToUpperChar(c) ==
  IF c \in Lower
    THEN UpperSeq[CHOOSE k \in 1..Len(LowerSeq) : LowerSeq[k] = c]
    ELSE c

\* U+0130, the capital I with a dot above: the one character whose lower
\* case is two characters, i and the combining dot U+0307
CapitalIDot ==
  "U+0130"

RECURSIVE toLowerCase(_)
\* String.prototype.toLowerCase
toLowerCase(s) ==
  IF s = <<>>
    THEN <<>>
    ELSE (IF Head(s) = CapitalIDot
            THEN <<"i", "U+0307">>
            ELSE <<ToLowerChar(Head(s))>>)
         \o toLowerCase(Tail(s))

(***************************************************************************)
(* Regular expressions: the syntax tree of a pattern's regex               *)
(***************************************************************************)
Cls(S) ==
  [t |-> "cls", s |-> S, neg |-> FALSE]

NotCls(S) ==
  [t |-> "cls", s |-> S, neg |-> TRUE]

Cat(a) ==
  [t |-> "cat", a |-> a]

Alt(a) ==
  [t |-> "alt", a |-> a]

\* r{lo,hi}, greedy
Rep(r, lo, hi) ==
  [t |-> "rep", r |-> r, lo |-> lo, hi |-> hi, inf |-> FALSE, lazy |-> FALSE]

\* r{lo,}, greedy
RepInf(r, lo) ==
  [t |-> "rep", r |-> r, lo |-> lo, hi |-> lo, inf |-> TRUE, lazy |-> FALSE]

\* r{lo,}?, lazy
LazyInf(r, lo) ==
  [t |-> "rep", r |-> r, lo |-> lo, hi |-> lo, inf |-> TRUE, lazy |-> TRUE]

Opt(r) ==
  Rep(r, 0, 1)

\* \b
WB ==
  [t |-> "wb"]

\* (?=r)
Look(r) ==
  [t |-> "look", r |-> r]

\* a literal string
Lit(cs) ==
  Cat([k \in 1..Len(cs) |-> Cls({cs[k]})])

\* "." : any character but a line terminator
AnyChar ==
  NotCls(LineTerminator)

(***************************************************************************)
(* Matching, as a backtracking engine orders it.  Ends(re, s, i) is the    *)
(* sequence of positions at which a match of re that starts after the      *)
(* first i characters of s can end, in the order backtracking tries them:  *)
(* its head is the end of the match the engine reports.  Every pattern is  *)
(* compiled with the flags "gi" (scanner.js line 50).                      *)
(***************************************************************************)
\* character c against a class, ignoring case
ClsHas(re, c) ==
  LET in == \/ c \in re.s
            \/ ToLowerChar(c) \in re.s
            \/ ToUpperChar(c) \in re.s
  IN  IF re.neg THEN ~in ELSE in

IsWordAt(s, k) ==
  /\ k >= 1
  /\ k <= Len(s)
  /\ s[k] \in WordChar

IsBoundary(s, i) ==
  IsWordAt(s, i) # IsWordAt(s, i + 1)

RECURSIVE Ends(_, _, _)
RECURSIVE EndsFrom(_, _, _, _, _)
RECURSIVE CatEnds(_, _, _, _)
RECURSIVE AltEnds(_, _, _, _)
RECURSIVE RepEnds(_, _, _, _)
RECURSIVE RepFrom(_, _, _, _, _, _)

\* the ends of re from each of the positions starts[lo..hi], in their order
EndsFrom(re, s, starts, lo, hi) ==
  IF lo > hi
    THEN <<>>
    ELSE IF lo = hi
      THEN Ends(re, s, starts[lo])
      ELSE LET mid == (lo + hi) \div 2
           IN  EndsFrom(re, s, starts, lo, mid)
               \o EndsFrom(re, s, starts, mid + 1, hi)

\* the elements a[k..] of a concatenation, from each of the positions starts
CatEnds(a, k, s, starts) ==
  IF k > Len(a) \/ starts = <<>>
    THEN starts
    ELSE CatEnds(a, k + 1, s, EndsFrom(a[k], s, starts, 1, Len(starts)))

\* the alternatives a[k..], in their order
AltEnds(a, k, s, i) ==
  IF k > Len(a)
    THEN <<>>
    ELSE Ends(a[k], s, i) \o AltEnds(a, k + 1, s, i)

\* after the n-th iteration, which began at position from, ended at each of
\* the positions starts[k..]; an iteration that consumed nothing is dropped
RepFrom(re, s, starts, k, n, from) ==
  IF k > Len(starts)
    THEN <<>>
    ELSE (IF starts[k] > from THEN RepEnds(re, s, starts[k], n) ELSE <<>>)
         \o RepFrom(re, s, starts, k + 1, n, from)

\* a quantifier at position i, n iterations done
RepEnds(re, s, i, n) ==
  LET more == IF re.inf \/ n < re.hi
                THEN RepFrom(re, s, Ends(re.r, s, i), 1, n + 1, i)
                ELSE <<>>
      stop == IF n >= re.lo THEN <<i>> ELSE <<>>
  IN  IF re.lazy THEN stop \o more ELSE more \o stop

\* a quantifier over one character class at position i: it can take any
\* number of the m characters of the class that follow, from re.lo up;
\* greedy tries the longest first, lazy the shortest
ClsRepEnds(re, s, i) ==
  LET most == IF re.inf \/ Len(s) - i < re.hi THEN Len(s) - i ELSE re.hi
      m    == CHOOSE k \in 0..most :
                /\ \A j \in 1..k : ClsHas(re.r, s[i + j])
                /\ k = most \/ ~ClsHas(re.r, s[i + k + 1])
  IN  IF m < re.lo
        THEN <<>>
        ELSE [j \in 1..(m - re.lo + 1) |->
                IF re.lazy THEN i + re.lo + (j - 1) ELSE i + m - (j - 1)]

Ends(re, s, i) ==
  CASE re.t = "cls"  -> IF i < Len(s) /\ ClsHas(re, s[i + 1])
                          THEN <<i + 1>> ELSE <<>>
    [] re.t = "wb"   -> IF IsBoundary(s, i) THEN <<i>> ELSE <<>>
    [] re.t = "look" -> IF Ends(re.r, s, i) # <<>> THEN <<i>> ELSE <<>>
    [] re.t = "cat"  -> CatEnds(re.a, 1, s, <<i>>)
    [] re.t = "alt"  -> AltEnds(re.a, 1, s, i)
    [] re.t = "rep"  -> IF re.r.t = "cls"
                          THEN ClsRepEnds(re, s, i)
                          ELSE RepEnds(re, s, i, 0)

\* the positions of s at which a match of re starts
MatchStarts(re, s) ==
  {p \in 0..Len(s) : Ends(re, s, p) # <<>>}

RECURSIVE MatchAll(_, _, _, _)
\* the matches at or after position pos, left to right, each search
\* resuming where the previous match ended
MatchAll(re, s, starts, pos) ==
  IF \A p \in starts : p < pos
    THEN <<>>
    ELSE LET p == CHOOSE q \in starts :
                    q >= pos /\ \A r \in starts : r >= pos => q <= r
             e == Ends(re, s, p)[1]
         IN  <<SubSeq(s, p + 1, e)>>
             \o MatchAll(re, s, starts, IF e = p THEN p + 1 ELSE e)

\* text.match(regex) for a regex with the g flag: all the matched
\* substrings ; <<>> stands for null (no occurrence)
match(text, regex) ==
  MatchAll(regex, text, MatchStarts(regex, text), 0)

(***************************************************************************)
(* Pattern registry (utils/patterns.js)                                    *)
(***************************************************************************)
D ==
  Cls(Digit)

\* [\s-]
SpaceOrHyphen ==
  Cls(Whitespace \cup {"-"})

\* [A-Z]
AZ ==
  Cls(Upper)

\* [A-Za-z0-9]
AlphaNum ==
  Cls(Upper \cup Lower \cup Digit)

\* /\b\d{4}[\s-]?\d{4}[\s-]?\d{4}\b/
AadhaarRegex ==
  Cat(<<WB, Rep(D, 4, 4), Opt(SpaceOrHyphen), Rep(D, 4, 4),
        Opt(SpaceOrHyphen), Rep(D, 4, 4), WB>>)

\* /\b[A-Z]{5}[0-9]{4}[A-Z]{1}\b/
PanRegex ==
  Cat(<<WB, Rep(AZ, 5, 5), Rep(D, 4, 4), Rep(AZ, 1, 1), WB>>)

\* /\b(?:4[0-9]{12}(?:[0-9]{3})?|5[1-5][0-9]{14}|3[47][0-9]{13}|3[0-9]{13}
\*      |6(?:011|5[0-9]{2})[0-9]{12}|(?:2131|1800|35\d{3})\d{11})\b/
CreditCardRegex ==
  Cat(<<WB,
        Alt(<<Cat(<<Lit(<<"4">>), Rep(D, 12, 12), Opt(Rep(D, 3, 3))>>),
              Cat(<<Lit(<<"5">>), Cls({"1", "2", "3", "4", "5"}),
                    Rep(D, 14, 14)>>),
              Cat(<<Lit(<<"3">>), Cls({"4", "7"}), Rep(D, 13, 13)>>),
              Cat(<<Lit(<<"3">>), Rep(D, 13, 13)>>),
              Cat(<<Lit(<<"6">>),
                    Alt(<<Lit(<<"0", "1", "1">>),
                          Cat(<<Lit(<<"5">>), Rep(D, 2, 2)>>)>>),
                    Rep(D, 12, 12)>>),
              Cat(<<Alt(<<Lit(<<"2", "1", "3", "1">>),
                          Lit(<<"1", "8", "0", "0">>),
                          Cat(<<Lit(<<"3", "5">>), Rep(D, 3, 3)>>)>>),
                    Rep(D, 11, 11)>>)>>),
        WB>>)

\* /\b\d{10,18}\b/
BankAccountRegex ==
  Cat(<<WB, Rep(D, 10, 18), WB>>)

\* /\b\d{9,18}\b/
IndianBankAccountRegex ==
  Cat(<<WB, Rep(D, 9, 18), WB>>)

\* /\b[A-Z]{4}0[A-Z0-9]{6}\b/
IfscRegex ==
  Cat(<<WB, Rep(AZ, 4, 4), Lit(<<"0">>), Rep(Cls(Upper \cup Digit), 6, 6),
        WB>>)

\* /\b[A-Za-z0-9._%+-]+@[A-Za-z0-9.-]+\.[A-Za-z]{2,}\b/
EmailRegex ==
  Cat(<<WB,
        RepInf(Cls(Upper \cup Lower \cup Digit \cup {".", "_", "%", "+", "-"}),
               1),
        Lit(<<"@">>),
        RepInf(Cls(Upper \cup Lower \cup Digit \cup {".", "-"}), 1),
        Lit(<<".">>),
        RepInf(Cls(Upper \cup Lower), 2),
        WB>>)

\* /\bAKIA[0-9A-Z]{16}\b/
AwsAccessKeyRegex ==
  Cat(<<WB, Lit(<<"A", "K", "I", "A">>), Rep(Cls(Digit \cup Upper), 16, 16),
        WB>>)

\* /\b[0-9a-zA-Z/+]{40}\b/
AwsSecretKeyRegex ==
  Cat(<<WB, Rep(Cls(Digit \cup Lower \cup Upper \cup {"/", "+"}), 40, 40),
        WB>>)

\* /\b(?:jdbc:|mongodb:|postgresql:|mysql:|redis:|sqlserver:)[^\s]+/i
DbConnectionRegex ==
  Cat(<<WB,
        Alt(<<Lit(<<"j", "d", "b", "c", ":">>),
              Lit(<<"m", "o", "n", "g", "o", "d", "b", ":">>),
              Lit(<<"p", "o", "s", "t", "g", "r", "e", "s", "q", "l", ":">>),
              Lit(<<"m", "y", "s", "q", "l", ":">>),
              Lit(<<"r", "e", "d", "i", "s", ":">>),
              Lit(<<"s", "q", "l", "s", "e", "r", "v", "e", "r", ":">>)>>),
        RepInf(NotCls(Whitespace), 1)>>)

\* [@$!%*?&]
PasswordSymbol ==
  {"@", "$", "!", "%", "*", "?", "&"}

\* /\b(?=.*[a-z])(?=.*[A-Z])(?=.*\d)(?=.*[@$!%*?&])[A-Za-z\d@$!%*?&]{8,}\b/
PasswordRegex ==
  Cat(<<WB,
        Look(Cat(<<RepInf(AnyChar, 0), Cls(Lower)>>)),
        Look(Cat(<<RepInf(AnyChar, 0), Cls(Upper)>>)),
        Look(Cat(<<RepInf(AnyChar, 0), D>>)),
        Look(Cat(<<RepInf(AnyChar, 0), Cls(PasswordSymbol)>>)),
        RepInf(Cls(Upper \cup Lower \cup Digit \cup PasswordSymbol), 8),
        WB>>)

\* /\b(?:sk_|pk_|key_|api_|token_)[A-Za-z0-9]{20,}\b/i
ApiKeyRegex ==
  Cat(<<WB,
        Alt(<<Lit(<<"s", "k", "_">>),
              Lit(<<"p", "k", "_">>),
              Lit(<<"k", "e", "y", "_">>),
              Lit(<<"a", "p", "i", "_">>),
              Lit(<<"t", "o", "k", "e", "n", "_">>)>>),
        RepInf(AlphaNum, 20),
        WB>>)

\* PRIVATE\s+KEY-----
PrivateKeyTail ==
  Cat(<<Lit(<<"P", "R", "I", "V", "A", "T", "E">>), RepInf(Cls(Whitespace), 1),
        Lit(<<"K", "E", "Y", "-", "-", "-", "-", "-">>)>>)

\* (?:RSA\s+)?
OptRsa ==
  Opt(Cat(<<Lit(<<"R", "S", "A">>), RepInf(Cls(Whitespace), 1)>>))

\* /-----BEGIN\s+(?:RSA\s+)?PRIVATE\s+KEY-----[\s\S]*?
\*  -----END\s+(?:RSA\s+)?PRIVATE\s+KEY-----/
PrivateKeyRegex ==
  Cat(<<Lit(<<"-", "-", "-", "-", "-", "B", "E", "G", "I", "N">>),
        RepInf(Cls(Whitespace), 1), OptRsa, PrivateKeyTail,
        LazyInf(NotCls({}), 0),
        Lit(<<"-", "-", "-", "-", "-", "E", "N", "D">>),
        RepInf(Cls(Whitespace), 1), OptRsa, PrivateKeyTail>>)

\* /\b\d{3}-\d{2}-\d{4}\b/
SsnRegex ==
  Cat(<<WB, Rep(D, 3, 3), Lit(<<"-">>), Rep(D, 2, 2), Lit(<<"-">>),
        Rep(D, 4, 4), WB>>)

\* /\b\d{10}\b/
PhoneRegex ==
  Cat(<<WB, Rep(D, 10, 10), WB>>)

\* /\b(?:alice|bob|rohit|priya|amit|neha|ajay)\b/i
TestPatternRegex ==
  Cat(<<WB,
        Alt(<<Lit(<<"a", "l", "i", "c", "e">>),
              Lit(<<"b", "o", "b">>),
              Lit(<<"r", "o", "h", "i", "t">>),
              Lit(<<"p", "r", "i", "y", "a">>),
              Lit(<<"a", "m", "i", "t">>),
              Lit(<<"n", "e", "h", "a">>),
              Lit(<<"a", "j", "a", "y">>)>>),
        WB>>)

\* /alice/i
SimpleTestRegex ==
  Lit(<<"a", "l", "i", "c", "e">>)

\* one rule of the registry
Pattern(key, label, severity, regex, description, recommendation) ==
  [key |-> key, label |-> label, severity |-> severity, regex |-> regex,
   description |-> description, recommendation |-> recommendation]

\* the registry, in its order
patterns ==
  << Pattern("aadhaar", "Aadhaar Number", "High", AadhaarRegex,
       "Indian Aadhaar identification number",
       "Remove or encrypt Aadhaar numbers. Use hashing for verification purposes."),
     Pattern("pan", "PAN Card Number", "High", PanRegex,
       "Indian Permanent Account Number",
       "Remove or encrypt PAN numbers. Use hashing for verification purposes."),
     Pattern("credit_card", "Credit Card Number", "High", CreditCardRegex,
       "Credit card number (Visa, MasterCard, Amex, Discover, JCB, Diners Club)",
       "Never store credit card numbers in plain text. Use PCI-compliant tokenization."),
     Pattern("bank_account", "Bank Account Number", "Medium", BankAccountRegex,
       "Bank account number",
       "Encrypt bank account numbers and implement access controls."),
     Pattern("indian_bank_account", "Indian Bank Account Number", "Medium",
       IndianBankAccountRegex,
       "Indian bank account number",
       "Encrypt bank account numbers and implement access controls."),
     Pattern("ifsc", "IFSC Code", "Low", IfscRegex,
       "Indian Financial System Code",
       "IFSC codes are public information, but ensure they're not stored with sensitive account details."),
     Pattern("upi", "UPI ID", "Low", EmailRegex,
       "Unified Payment Interface identifier",
       "UPI IDs are generally public, but avoid storing with sensitive financial data."),
     Pattern("email", "Email Address", "Low", EmailRegex,
       "Email address",
       "Email addresses are generally low risk, but consider privacy implications in sensitive contexts."),
     Pattern("aws_access_key", "AWS Access Key ID", "High", AwsAccessKeyRegex,
       "AWS Access Key Identifier",
       "Immediately rotate compromised access keys. Use IAM roles instead of long-term access keys."),
     Pattern("aws_secret_key", "AWS Secret Access Key", "High",
       AwsSecretKeyRegex,
       "AWS Secret Access Key",
       "Immediately rotate compromised secret keys. Use IAM roles instead of long-term access keys."),
     Pattern("db_connection", "Database Connection String", "High",
       DbConnectionRegex,
       "Database connection string with credentials",
       "Remove hardcoded database credentials. Use environment variables or secret management services."),
     Pattern("password", "Password Pattern", "Medium", PasswordRegex,
       "Strong password pattern",
       "Avoid storing passwords in plain text. Use secure hashing algorithms like bcrypt."),
     Pattern("api_key", "API Key", "High", ApiKeyRegex,
       "API key or token",
       "Rotate compromised API keys immediately. Store in environment variables or secret management services."),
     Pattern("private_key", "Private Key", "High", PrivateKeyRegex,
       "Private cryptographic key",
       "Never commit private keys to version control. Use secure key management services."),
     Pattern("ssn", "Social Security Number", "High", SsnRegex,
       "US Social Security Number",
       "Remove or encrypt SSNs. Use hashing for verification purposes."),
     Pattern("phone", "Phone Number", "Medium", PhoneRegex,
       "Phone number in various formats",
       "Consider privacy implications. Use hashing for verification if needed."),
     Pattern("test_pattern", "Test Pattern", "Low", TestPatternRegex,
       "Test pattern for debugging",
       "This is a test pattern to verify scanner functionality."),
     Pattern("simple_test", "Simple Test Pattern", "Low", SimpleTestRegex,
       "Very simple test pattern",
       "This should definitely match if scanner is working.") >>

\* weights that take every severity for High
severityWeightsAllHigh(severity) ==
  10

\* severityWeights[severity]
severityWeights(severity) ==
  CASE severity = "High"   -> 10
    [] severity = "Medium" -> 5
    [] severity = "Low"    -> 1

binaryExtensions ==
  << <<".", "j", "p", "g">>, <<".", "j", "p", "e", "g">>,
     <<".", "p", "n", "g">>, <<".", "g", "i", "f">>, <<".", "b", "m", "p">>,
     <<".", "t", "i", "f", "f">>, <<".", "s", "v", "g">>,
     <<".", "z", "i", "p">>, <<".", "r", "a", "r">>, <<".", "7", "z">>,
     <<".", "t", "a", "r">>, <<".", "g", "z">>, <<".", "b", "z", "2">>,
     <<".", "p", "d", "f">>, <<".", "d", "o", "c">>,
     <<".", "d", "o", "c", "x">>, <<".", "x", "l", "s">>,
     <<".", "x", "l", "s", "x">>, <<".", "p", "p", "t">>,
     <<".", "p", "p", "t", "x">>,
     <<".", "m", "p", "3">>, <<".", "m", "p", "4">>, <<".", "a", "v", "i">>,
     <<".", "m", "o", "v">>, <<".", "w", "m", "v">>, <<".", "f", "l", "v">>,
     <<".", "e", "x", "e">>, <<".", "d", "l", "l">>, <<".", "s", "o">>,
     <<".", "d", "y", "l", "i", "b">>, <<".", "b", "i", "n">>,
     <<".", "i", "s", "o">>, <<".", "i", "m", "g">>,
     <<".", "v", "m", "d", "k">>, <<".", "v", "h", "d">>,
     <<".", "o", "v", "a">> >>

(***************************************************************************)
(* Scanner service (services/scanner.js): the pure parts                   *)
(***************************************************************************)
\* JavaScript's null
null ==
  [null |-> TRUE]

\* String.prototype.lastIndexOf for one character: the 0-based index of its
\* last occurrence, -1 if there is none
lastIndexOf(s, c) ==
  IF \E k \in 1..Len(s) : s[k] = c
    THEN (CHOOSE k \in 1..Len(s) :
            s[k] = c /\ \A j \in (k + 1)..Len(s) : s[j] # c) - 1
    ELSE 0 - 1

\* String.prototype.substring(start): a negative start counts as 0
substring(s, start) ==
  SubSeq(s, (IF start < 0 THEN 0 ELSE start) + 1, Len(s))

\* Array.prototype.includes
includes(a, x) ==
  x \in {a[k] : k \in 1..Len(a)}

\* Array.prototype.slice(0, n)
sliceTo(a, n) ==
  SubSeq(a, 1, IF Len(a) < n THEN Len(a) ELSE n)

\* String.prototype.trim
trim(s) ==
  IF \A k \in 1..Len(s) : s[k] \in Whitespace
    THEN <<>>
    ELSE LET first == CHOOSE k \in 1..Len(s) :
                        s[k] \notin Whitespace
                        /\ \A j \in 1..(k - 1) : s[j] \in Whitespace
             last  == CHOOSE k \in 1..Len(s) :
                        s[k] \notin Whitespace
                        /\ \A j \in (k + 1)..Len(s) : s[j] \in Whitespace
         IN  SubSeq(s, first, last)

(* the stored texts *)
VisaText ==
  <<"4", "1", "1", "1", "1", "1", "1", "1", "1", "1", "1", "1", "1", "1",
    "1", "1">>

\* "a@b.co alice"
MailText ==
  <<"a", "@", "b", ".", "c", "o", " ", "a", "l", "i", "c", "e">>

\* "hello"
CleanText ==
  <<"h", "e", "l", "l", "o">>

\* "123-45-6789 ABCDE1234F 1234 5678 9012 jdbc:x 4111111111111 ",
\* an access key id, " alice"
RichText ==
  <<"1", "2", "3", "-", "4", "5", "-", "6", "7", "8", "9", " ",
    "A", "B", "C", "D", "E", "1", "2", "3", "4", "F", " ",
    "1", "2", "3", "4", " ", "5", "6", "7", "8", " ", "9", "0", "1", "2", " ",
    "j", "d", "b", "c", ":", "x", " ",
    "4", "1", "1", "1", "1", "1", "1", "1", "1", "1", "1", "1", "1", " ",
    "A", "K", "I", "A", "I", "O", "S", "F", "O", "D", "N", "N", "7",
    "E", "X", "A", "M", "P", "L", "E", " ", "a", "l", "i", "c", "e">>

\* "a@b.co c@d.co e@f.co g@h.co bob"
MailsText ==
  <<"a", "@", "b", ".", "c", "o", " ", "c", "@", "d", ".", "c", "o", " ",
    "e", "@", "f", ".", "c", "o", " ", "g", "@", "h", ".", "c", "o", " ",
    "b", "o", "b">>

\* " \n"
BlankText ==
  <<" ", "\n">>

\* the texts stored in the objects of the accounts
StoredTexts ==
  {VisaText, MailText, MailsText, CleanText, RichText, BlankText}

shouldSkipFile(key) ==
  LET extension == substring(toLowerCase(key), lastIndexOf(key, "."))
  IN  includes(binaryExtensions, extension)

\* a match record that keeps every occurrence as a sample
patternMatchesAllSamples(pattern, text) ==
  LET found == match(text, pattern.regex)
  IN  IF found # <<>> /\ Len(found) > 0
        THEN << [pattern        |-> pattern.key,
                 label          |-> pattern.label,
                 severity       |-> pattern.severity,
                 count          |-> Len(found),
                 samples        |-> found,
                 description    |-> pattern.description,
                 recommendation |-> pattern.recommendation] >>
        ELSE <<>>

\* what one pattern contributes for a text: a match record when it has at
\* least one occurrence, nothing otherwise
patternMatches(pattern, text) ==
  LET found == match(text, pattern.regex)
  IN  IF found # <<>> /\ Len(found) > 0
        THEN << [pattern        |-> pattern.key,
                 label          |-> pattern.label,
                 severity       |-> pattern.severity,
                 count          |-> Len(found),
                 samples        |-> sliceTo(found, 3),
                 description    |-> pattern.description,
                 recommendation |-> pattern.recommendation] >>
        ELSE <<>>

RECURSIVE scanPatternsFrom(_, _)
\* a scan that takes the e-mail rule for a duplicate of the UPI rule
scanPatternsFromMerged(text, k) ==
  IF k > Len(patterns)
    THEN <<>>
    ELSE (IF patterns[k].key = "email"
            THEN <<>>
            ELSE patternMatches(patterns[k], text))
         \o scanPatternsFrom(text, k + 1)

\* patterns.forEach from the k-th pattern on
scanPatternsFrom(text, k) ==
  IF k > Len(patterns)
    THEN <<>>
    ELSE patternMatches(patterns[k], text) \o scanPatternsFrom(text, k + 1)

\* the matches of the stored texts, computed once
storedMatches ==
  [text \in StoredTexts |-> scanPatternsFrom(text, 1)]

scanTextContent(text) ==
  IF text \in StoredTexts
    THEN storedMatches[text]
    ELSE scanPatternsFrom(text, 1)

\* the outcomes of a GetObject call for one object: a body, a response
\* without a body, or an error
ReadOutcomes ==
  {"ok", "NoBody", "AccessDenied", "KMS", "NetworkError"}

\* a stored object: its key, what reading it gives, and its first 500KB
Object(key, read, body) ==
  [Key |-> key, read |-> read, body |-> body]

\* the text read from an object; the empty text when the read fails or the
\* response has no body
readObjectContent(bucket, obj) ==
  IF obj.read = "ok"
    THEN obj.body
    ELSE <<>>

\* true when scanObject issues a GetObject call for the object
readsObject(obj) ==
  ~shouldSkipFile(obj.Key)

\* a scan that keeps an object whose text has no match
scanObjectKeepsClean(bucket, obj) ==
  IF shouldSkipFile(obj.Key)
    THEN null
    ELSE LET content == readObjectContent(bucket, obj)
         IN  IF content = <<>> \/ Len(trim(content)) = 0
               THEN null
               ELSE [bucket  |-> bucket,
                     key     |-> obj.Key,
                     size    |-> Len(content),
                     matches |-> scanTextContent(content)]

\* the finding of one object, or null
scanObject(bucket, obj) ==
  IF shouldSkipFile(obj.Key)
    THEN null
    ELSE LET content == readObjectContent(bucket, obj)
         IN  IF content = <<>> \/ Len(trim(content)) = 0
               THEN null
               ELSE LET matches == scanTextContent(content)
                    IN  IF Len(matches) = 0
                          THEN null
                          ELSE [bucket  |-> bucket,
                                key     |-> obj.Key,
                                size    |-> Len(content),
                                matches |-> matches]

\* a total that counts the objects with matches
countMatchesObjects(findings, k) ==
  Len(findings)

RECURSIVE countMatches(_, _)
\* findings.reduce((sum, finding) => sum + finding.matches.length, 0)
countMatches(findings, k) ==
  IF k > Len(findings)
    THEN 0
    ELSE Len(findings[k].matches) + countMatches(findings, k + 1)

\* a switch without the case for Low
severityCountButLow(finding, severity) ==
  IF severity = "Low"
    THEN 0
    ELSE Cardinality({j \in 1..Len(finding.matches) :
                        finding.matches[j].severity = severity})

\* the matches of one finding that the switch counts under a severity
severityCount(finding, severity) ==
  Cardinality({j \in 1..Len(finding.matches) :
                 finding.matches[j].severity = severity})

RECURSIVE countSeverity(_, _, _)
\* highCount / mediumCount / lowCount after the two forEach loops
countSeverity(findings, severity, k) ==
  IF k > Len(findings)
    THEN 0
    ELSE severityCount(findings[k], severity)
         + countSeverity(findings, severity, k + 1)

\* the second operand, whatever the first
second(a, b) ==
  b

\* Math.max
max(a, b) ==
  IF a >= b THEN a ELSE b

\* Math.round(x * 100) / 100 for an integer x
round2(x) ==
  (x * 100) \div 100

\* 22 hours, in milliseconds
NextScanOffset ==
  22 * 60 * 60 * 1000

\* new Date(t).toISOString(): the timestamp string of the instant t
toISOString(t) ==
  [iso |-> t]

\* now is the value of the clock when the summary is generated
generateSummary(findings, scanDuration, now) ==
  LET totalIssues == countMatches(findings, 1)
      highCount   == countSeverity(findings, "High", 1)
      mediumCount == countSeverity(findings, "Medium", 1)
      lowCount    == countSeverity(findings, "Low", 1)
      penalty     == highCount * severityWeights("High")
                     + mediumCount * severityWeights("Medium")
                     + lowCount * severityWeights("Low")
      complianceScore == max(50, 100 - penalty)
      estSavings  == highCount * 20 + mediumCount * 5 + lowCount * 1
  IN  [totalIssues     |-> totalIssues,
       high            |-> highCount,
       medium          |-> mediumCount,
       low             |-> lowCount,
       complianceScore |-> round2(complianceScore),
       estSavings      |-> estSavings,
       scanDuration    |-> scanDuration,
       projectStatus   |-> [lastScan   |-> toISOString(now),
                            nextScan   |-> toISOString(now + NextScanOffset),
                            totalScans |-> 1]]

\* result.matches.filter(m => m.severity === severity)
issuesOf(result, severity) ==
  SelectSeq(result.matches, LAMBDA m : m.severity = severity)

RECURSIVE flat(_)
\* Array.prototype.flat, one level
flat(a) ==
  IF a = <<>> THEN <<>> ELSE Head(a) \o flat(Tail(a))

\* a finding that is labelled with the last of its issues
severityFindingLastRule(result, severity, type, recommendation) ==
  LET issues == issuesOf(result, severity)
  IN  IF Len(issues) > 0
        THEN << [resource       |-> result.bucket \o <<"/">> \o result.key,
                 type           |-> type,
                 severity       |-> severity,
                 recommendation |-> recommendation,
                 details |->
                   [rule    |-> issues[Len(issues)].label,
                    count   |-> Len(issues),
                    samples |-> flat([k \in 1..Len(sliceTo(issues, 2)) |->
                                        issues[k].samples])]] >>
        ELSE <<>>

\* the finding of one severity for one scanned object, if it has issues of it
severityFinding(result, severity, type, recommendation) ==
  LET issues == issuesOf(result, severity)
  IN  IF Len(issues) > 0
        THEN << [resource       |-> result.bucket \o <<"/">> \o result.key,
                 type           |-> type,
                 severity       |-> severity,
                 recommendation |-> recommendation,
                 details |->
                   [rule    |-> issues[1].label,
                    count   |-> Len(issues),
                    samples |-> flat([k \in 1..Len(sliceTo(issues, 2)) |->
                                        issues[k].samples])]] >>
        ELSE <<>>

\* the findings of one scanned object: High, then Medium, then Low
objectFindings(result) ==
  severityFinding(result, "High", "High Risk", "Immediate action required")
  \o severityFinding(result, "Medium", "Medium Risk",
                     "Review and address soon")
  \o severityFinding(result, "Low", "Low Risk", "Monitor and review")

convertToFindings(scanResults) ==
  flat([k \in 1..Len(scanResults) |-> objectFindings(scanResults[k])])

(***************************************************************************)
(* Bounds and the storage account                                          *)
(***************************************************************************)
\* scans accepted over the life of the process
MaxRuns ==
  2

\* last instant of the clock
MaxTime ==
  1

\* objects of the large bucket
BigBucketSize ==
  11

\* objects of the wide bucket, more than one listing returns
WideBucketSize ==
  250

\* objects of the bucket that one listing returns whole
FiftyBucketSize ==
  50

\* MaxKeys of the listing call of listBucketObjects
MaxKeys ==
  200

batchSize ==
  10

\* a progress line is logged when scannedObjects is a multiple of it
ProgressEvery ==
  50

DigitSeq ==
  <<"0", "1", "2", "3", "4", "5", "6", "7", "8", "9">>

CardObject ==
  Object(<<"c", "a", "r", "d", ".", "t", "x", "t">>, "ok", VisaText)

DeniedObject ==
  Object(<<"k", "e", "y", "s", ".", "t", "x", "t">>, "AccessDenied", VisaText)

KmsObject ==
  Object(<<"k", "m", "s", ".", "t", "x", "t">>, "KMS", VisaText)

ImageObject ==
  Object(<<"i", "m", "g", ".", "P", "N", "G">>, "ok", VisaText)

MailObject ==
  Object(<<"a", ".", "c", "s", "v">>, "ok", MailText)

RECURSIVE decimal(_)
\* the decimal digits of a natural number
decimal(n) ==
  IF n < 10
    THEN <<DigitSeq[n + 1]>>
    ELSE decimal(n \div 10) \o <<DigitSeq[(n % 10) + 1]>>

\* the k-th of the objects without sensitive content
CleanObject(k) ==
  Object(<<"n", "o", "t", "e">> \o decimal(k), "ok", CleanText)

BlankObject ==
  Object(<<"b", "l", "a", "n", "k">>, "ok", BlankText)

RichObject ==
  Object(<<"d", "u", "m", "p", ".", "s", "q", "l">>, "ok", RichText)

Bucket(name, objects) ==
  [Name |-> name, objects |-> objects]

\* a bucket of BigBucketSize objects: more than one batch, with one object
\* whose read is denied in the first batch
BigBucket ==
  Bucket(<<"b", "i", "g">>,
         [k \in 1..BigBucketSize |->
            IF k = 2 THEN DeniedObject
            ELSE IF k = 3 THEN MailObject
            ELSE IF k = BigBucketSize THEN CardObject
            ELSE CleanObject(k)])

SmallBucket ==
  Bucket(<<"s", "m", "a", "l", "l">>, <<RichObject, KmsObject, ImageObject>>)

\* an image whose name has a capital I with a dot above
DottedImageObject ==
  Object(<<"R", "E", "S", CapitalIDot, "M", ".", "P", "N", "G">>, "ok",
         VisaText)

MediaBucket ==
  Bucket(<<"m", "e", "d", "i", "a">>,
         <<ImageObject, BlankObject, DottedImageObject,
           Object(<<"m", "a", "i", "l", "s", ".", "t", "x", "t">>, "ok",
                  MailsText)>>)

\* the storage accounts a process may be started against
Accounts ==
  { <<>>,
    <<SmallBucket>> }

\* the k-th picture of a bucket
PictureObject(k) ==
  Object(<<"p">> \o decimal(k) \o <<".", "p", "n", "g">>, "ok", VisaText)

\* the last object a listing of the wide bucket returns
LastListedObject ==
  Object(<<"l", "a", "s", "t", ".", "c", "s", "v">>, "ok", MailText)

\* a bucket of pictures, with a text at the last position a listing returns
\* and one at the position after it
WideBucket ==
  Bucket(<<"w", "i", "d", "e">>,
         [k \in 1..WideBucketSize |->
            IF k = MaxKeys THEN LastListedObject
            ELSE IF k = MaxKeys + 1
              THEN Object(<<"o", "v", "e", "r", ".", "c", "s", "v">>, "ok",
                          MailText)
            ELSE PictureObject(k)])

\* a bucket of pictures that ends with a text
FiftyBucket ==
  Bucket(<<"f", "i", "f", "t", "y">>,
         [k \in 1..FiftyBucketSize |->
            IF k = FiftyBucketSize THEN MailObject ELSE PictureObject(k)])

\* one bucket with one object, whose content is a 16-digit Visa number
CardBucket ==
  Bucket(<<"c", "a", "r", "d", "s">>, <<CardObject>>)

\* the accounts of the processes whose cache is not cleared: with a bucket
\* of more than one batch, with a single object, with a bucket of more
\* objects than a listing returns, or with a bucket whose size is not a
\* multiple of the batch size before the others
LargeAccounts ==
  { <<BigBucket, SmallBucket>>,
    <<MediaBucket, BigBucket>>,
    <<CardBucket>>,
    <<WideBucket, FiftyBucket>>,
    <<CardBucket, FiftyBucket, SmallBucket>> }

(***************************************************************************)
(* State                                                                   *)
(***************************************************************************)
VARIABLES
  cachedResults,   \* ScanController.cachedResults
  runs,            \* the activations of runScanNow / runScan, by number
  account,         \* the buckets of the storage account
  now,             \* the clock (new Date(), Date.now())
  resp             \* the last response sent

vars ==
  <<cachedResults, runs, account, now, resp>>

RunIds ==
  1..MaxRuns

\* the locals of an activation of runScan that has not begun
NoRun ==
  [pc |-> "none", startTime |-> 0, buckets |-> <<>>, k |-> 0, b |-> 0,
   objects |-> <<>>, i |-> 0, reading |-> <<>>, inflight |-> 0,
   allFindings |-> <<>>,
   totalObjects |-> 0, scannedObjects |-> 0, progress |-> <<>>]

\* an activation that has returned / thrown: its locals are gone
DoneRun ==
  [NoRun EXCEPT !.pc = "done"]

FailedRun ==
  [NoRun EXCEPT !.pc = "failed"]

\* the positions at which an activation waits for a storage call
ActivePcs ==
  {"listBuckets", "access", "listObjects", "batch"}

InProgress(r) ==
  runs[r].pc \in ActivePcs

\* the constructor's cache
EmptyCache ==
  [summary |-> null, findings |-> <<>>, lastScanTime |-> null,
   isScanning |-> FALSE]

Response(op, status, body) ==
  [op |-> op, status |-> status, body |-> body]

NoResponse ==
  Response("none", 0, null)

Init ==
  /\ cachedResults = EmptyCache
  /\ runs = [r \in RunIds |-> NoRun]
  /\ account \in Accounts
  /\ now = 0
  /\ resp = NoResponse

(***************************************************************************)
(* Requests                                                                *)
(***************************************************************************)
\* credentials.expiration: absent, or the timestamp of an instant
Expirations ==
  {null} \cup {toISOString(t) : t \in 0..(MaxTime + 1)}

\* session.awsCredentials: for each key, whether it holds a non-empty
\* value, and the expiration.  Complete credentials carry any expiration;
\* credentials that lack one key carry an expiration that has passed.
Credentials ==
  {c \in [accessKeyId : BOOLEAN, secretAccessKey : BOOLEAN,
          sessionToken : BOOLEAN, expiration : Expirations] :
     \/ c.accessKeyId /\ c.secretAccessKey /\ c.sessionToken
     \/ /\ c.expiration = toISOString(0)
        /\ \/ c.accessKeyId /\ c.secretAccessKey
           \/ c.accessKeyId /\ c.sessionToken
           \/ c.secretAccessKey /\ c.sessionToken}

\* req.session: absent, or with or without awsCredentials
Sessions ==
  {[present |-> FALSE, awsCredentials |-> null]}
  \cup {[present |-> TRUE, awsCredentials |-> c] : c \in {null} \cup Credentials}

\* new Date(timestamp).getTime()
getTime(timestamp) ==
  timestamp.iso

(***************************************************************************)
(* runScan: from one storage call to the next                              *)
(***************************************************************************)
\* the objects stored in the bucket of that name
StoredObjects(name) ==
  LET k == CHOOSE j \in 1..Len(account) : account[j].Name = name
  IN  account[k].objects

\* a listing that returns every object of the bucket
ListObjectsV2Whole(name, maxKeys) ==
  StoredObjects(name)

\* the Contents of a ListObjectsV2 response for MaxKeys = maxKeys
ListObjectsV2(name, maxKeys) ==
  sliceTo(StoredObjects(name), maxKeys)

\* objects.slice(i, i + batchSize)
batchAt(run) ==
  SubSeq(run.objects, run.i + 1,
         IF run.i + batchSize < Len(run.objects)
           THEN run.i + batchSize ELSE Len(run.objects))

\* the keys a batch issues GetObject calls for, in the order of the batch
keysRead(batch) ==
  LET read == SelectSeq(batch, readsObject)
  IN  [j \in 1..Len(read) |-> read[j].Key]

\* the GetObject calls a batch issues: one for each object not skipped
readsIssued(batch) ==
  Cardinality({j \in 1..Len(batch) : readsObject(batch[j])})

\* batchResults.filter(result => result !== null)
validResults(bucketName, batch) ==
  SelectSeq([j \in 1..Len(batch) |-> scanObject(bucketName, batch[j])],
            LAMBDA result : result # null)

\* a count of the objects that yielded a result only
scannedAfterValid(run, batch) ==
  run.scannedObjects + Len(validResults(run.buckets[run.b], batch))

\* scannedObjects after a batch
scannedAfter(run, batch) ==
  run.scannedObjects + Len(batch)

\* the locals once Promise.all of the current batch has resolved
afterBatch(run) ==
  LET batch   == batchAt(run)
      scanned == scannedAfter(run, batch)
  IN  [run EXCEPT
         !.allFindings = @ \o validResults(run.buckets[run.b], batch),
         !.scannedObjects = scanned,
         !.progress = IF scanned % ProgressEvery = 0
                        THEN Append(@, scanned) ELSE @,
         !.i = @ + batchSize,
         !.reading = <<>>,
         !.inflight = 0]

RECURSIVE nextAwait(_)
\* a batch loop that leaves a bucket after its first batch
nextAwaitOneBatch(run) ==
  IF run.i = 0 /\ Len(run.objects) > 0
    THEN LET n == readsIssued(batchAt(run))
         IN  IF n > 0
               THEN [run EXCEPT !.pc = "batch", !.inflight = n,
                                !.reading = keysRead(batchAt(run))]
               ELSE nextAwait(afterBatch(run))
    ELSE IF run.b < Len(run.buckets)
      THEN [run EXCEPT !.pc = "listObjects", !.b = @ + 1,
                       !.objects = <<>>, !.i = 0]
      ELSE [run EXCEPT !.pc = "return"]

\* from the test of the batch loop to the next storage call: the reads of
\* the next batch that reads anything, the listing of the next bucket, or
\* the end of the bucket loop (pc "return")
nextAwait(run) ==
  IF run.i < Len(run.objects)
    THEN LET n == readsIssued(batchAt(run))
         IN  IF n > 0
               THEN [run EXCEPT !.pc = "batch", !.inflight = n,
                                !.reading = keysRead(batchAt(run))]
               ELSE nextAwait(afterBatch(run))
    ELSE IF run.b < Len(run.buckets)
      THEN [run EXCEPT !.pc = "listObjects", !.b = @ + 1,
                       !.objects = <<>>, !.i = 0]
      ELSE [run EXCEPT !.pc = "return"]

(***************************************************************************)
(* ScanController                                                          *)
(***************************************************************************)
\* a commit that stores the summary and keeps the findings it finds
CommitKeepsFindings(r, run) ==
  LET summary  == generateSummary(run.allFindings, now - run.startTime, now)
      findings == convertToFindings(run.allFindings)
      lastScanTime == toISOString(now)
  IN  /\ cachedResults' = [cachedResults EXCEPT
                             !.summary      = summary,
                             !.lastScanTime = lastScanTime,
                             !.isScanning   = FALSE]
      /\ resp' = Response("start_scan", 200,
                   [message       |-> "Security scan completed successfully",
                    summary       |-> summary,
                    findingsCount |-> Len(findings),
                    timestamp     |-> lastScanTime])
      /\ runs' = [runs EXCEPT ![r] = DoneRun]

\* lines 67-84 of runScanNow: the cache is updated with the results and
\* the response is sent
Commit(r, run) ==
  LET summary  == generateSummary(run.allFindings, now - run.startTime, now)
      findings == convertToFindings(run.allFindings)
      lastScanTime == toISOString(now)
  IN  /\ cachedResults' = [summary      |-> summary,
                           findings     |-> findings,
                           lastScanTime |-> lastScanTime,
                           isScanning   |-> FALSE]
      /\ resp' = Response("start_scan", 200,
                   [message       |-> "Security scan completed successfully",
                    summary       |-> summary,
                    findingsCount |-> Len(findings),
                    timestamp     |-> lastScanTime])
      /\ runs' = [runs EXCEPT ![r] = DoneRun]

\* a catch block that leaves the flag as it is
CatchKeepsFlag(r, message) ==
  /\ resp' = Response("start_scan", 500,
               [error |-> "Scan failed", message |-> message])
  /\ runs' = [runs EXCEPT ![r] = FailedRun]
  /\ UNCHANGED cachedResults

\* a catch block that resets the whole cache
CatchResetsCache(r, message) ==
  /\ cachedResults' = EmptyCache
  /\ resp' = Response("start_scan", 500,
               [error |-> "Scan failed", message |-> message])
  /\ runs' = [runs EXCEPT ![r] = FailedRun]

\* the catch block of runScanNow
Catch(r, message) ==
  /\ cachedResults' = [cachedResults EXCEPT !.isScanning = FALSE]
  /\ resp' = Response("start_scan", 500,
               [error |-> "Scan failed", message |-> message])
  /\ runs' = [runs EXCEPT ![r] = FailedRun]

\* an activation moves on: it waits for its next storage call, or it has
\* returned and the controller commits.  locals: the value of run
Proceed(r, run) ==
  \E locals \in {run} :
    IF locals.pc = "return"
      THEN Commit(r, locals)
      ELSE /\ runs' = [runs EXCEPT ![r] = locals]
           /\ UNCHANGED <<cachedResults, resp>>

Reject(status, error, message) ==
  /\ resp' = Response("start_scan", status,
               [error |-> error, message |-> message])
  /\ UNCHANGED <<cachedResults, runs>>

\* line 26: a scan is already flagged as running
alreadyRunning ==
  cachedResults.isScanning

\* line 34: no session, or no credentials in it
sessionMissing(session) ==
  ~session.present \/ session.awsCredentials = null

\* a check of the keys that forgets the session token
credentialsIncompleteButToken(session) ==
  \/ ~session.awsCredentials.accessKeyId
  \/ ~session.awsCredentials.secretAccessKey

\* lines 42-44: one of the three keys is missing or empty
credentialsIncomplete(session) ==
  \/ ~session.awsCredentials.accessKeyId
  \/ ~session.awsCredentials.secretAccessKey
  \/ ~session.awsCredentials.sessionToken

\* lines 52-53: there is an expiration and it is not after the clock
credentialsExpired(session) ==
  /\ session.awsCredentials.expiration # null
  /\ getTime(session.awsCredentials.expiration) <= now

\* lines 60-65: the flag is raised and runScan begins; it has listed the
\* buckets when its first storage call returns
Begin(r) ==
  /\ cachedResults' = [cachedResults EXCEPT !.isScanning = TRUE]
  /\ runs' = [runs EXCEPT ![r] =
       [NoRun EXCEPT !.pc = "listBuckets", !.startTime = now]]
  /\ UNCHANGED resp

\* POST /scan/run, up to the first storage call.  clientOk: whether the
\* construction of the S3 client at the head of runScan succeeds.  The
\* number of scans accepted is capped at MaxRuns.
StartScan(session) ==
  /\ IF alreadyRunning
       THEN Reject(409, "Scan already in progress",
              "A security scan is currently running. Please wait for it to complete.")
     ELSE IF sessionMissing(session)
       THEN Reject(401, "Unauthorized",
              "Valid AWS session credentials required to run scan")
     ELSE IF credentialsIncomplete(session)
       THEN Reject(401, "Invalid credentials",
              "Session credentials are incomplete or invalid")
     ELSE IF credentialsExpired(session)
       THEN Reject(401, "Expired credentials",
              "AWS session has expired. Please re-authenticate.")
     ELSE /\ \E r \in RunIds : runs[r].pc = "none"
          /\ LET r == CHOOSE q \in RunIds :
                        /\ runs[q].pc = "none"
                        /\ \A p \in RunIds : runs[p].pc = "none" => q <= p
             IN  \E clientOk \in BOOLEAN :
                   IF clientOk
                     THEN Begin(r)
                     ELSE Catch(r, "S3 client construction failed")
  /\ UNCHANGED <<account, now>>

\* a scan that takes an account without buckets for a failure
ListBucketsDoneNeedsBuckets(r, ok) ==
  /\ runs[r].pc = "listBuckets"
  /\ UNCHANGED <<account, now>>
  /\ IF ~ok
       THEN Catch(r, "Scan failed: ListBuckets failed")
     ELSE IF Len(account) = 0
       THEN Catch(r, "Scan failed: No buckets found")
     ELSE /\ runs' = [runs EXCEPT ![r] =
               [@ EXCEPT !.pc = "access",
                         !.buckets = [j \in 1..Len(account) |->
                                        account[j].Name],
                         !.k = 1]]
          /\ UNCHANGED <<cachedResults, resp>>

\* the ListBuckets call of an activation completes
ListBucketsDone(r, ok) ==
  /\ runs[r].pc = "listBuckets"
  /\ UNCHANGED <<account, now>>
  /\ IF ~ok
       THEN Catch(r, "Scan failed: ListBuckets failed")
     ELSE IF Len(account) = 0
       THEN Commit(r, [runs[r] EXCEPT !.pc = "return"])
     ELSE /\ runs' = [runs EXCEPT ![r] =
               [@ EXCEPT !.pc = "access",
                         !.buckets = [j \in 1..Len(account) |->
                                        account[j].Name],
                         !.k = 1]]
          /\ UNCHANGED <<cachedResults, resp>>

\* the access test of bucket k (ListObjectsV2 with MaxKeys 1) completes;
\* its failure is only logged
AccessTestDone(r, ok) ==
  /\ runs[r].pc = "access"
  /\ UNCHANGED <<account, now, cachedResults, resp>>
  /\ runs' = [runs EXCEPT ![r] =
       IF @.k < Len(@.buckets)
         THEN [@ EXCEPT !.k = @ + 1]
         ELSE [@ EXCEPT !.pc = "listObjects", !.k = 0, !.b = 1]]

\* a listing whose failure is thrown to runScan's catch
ListObjectsDoneEscalates(r, ok) ==
  /\ runs[r].pc = "listObjects"
  /\ UNCHANGED <<account, now>>
  /\ IF ~ok
       THEN Catch(r, "Scan failed: ListObjectsV2 failed")
       ELSE LET run     == runs[r]
                objects == ListObjectsV2(run.buckets[run.b], MaxKeys)
            IN  Proceed(r, nextAwait([run EXCEPT
                                        !.objects = objects,
                                        !.totalObjects = @ + Len(objects),
                                        !.i = 0]))

\* the listing of bucket b completes
ListObjectsDone(r, ok) ==
  /\ runs[r].pc = "listObjects"
  /\ UNCHANGED <<account, now>>
  /\ LET run     == runs[r]
         objects == IF ok
                      THEN ListObjectsV2(run.buckets[run.b], MaxKeys)
                      ELSE <<>>
     IN  Proceed(r, nextAwait([run EXCEPT
                                 !.objects = objects,
                                 !.totalObjects = @ + Len(objects),
                                 !.i = 0]))

\* a batch whose last read is never answered
ReadDoneButLast(r) ==
  /\ runs[r].pc = "batch"
  /\ runs[r].inflight > 1
  /\ UNCHANGED <<account, now>>
  /\ Proceed(r, [runs[r] EXCEPT !.inflight = @ - 1])

\* a batch that resolves with the first of its reads (Promise.race)
ReadDoneRace(r) ==
  /\ runs[r].pc = "batch"
  /\ runs[r].inflight > 0
  /\ UNCHANGED <<account, now>>
  /\ Proceed(r, nextAwait(afterBatch(runs[r])))

\* one of the reads of the current batch completes (with content or with an
\* error, as the object has it); the last one resolves Promise.all
ReadDone(r) ==
  /\ runs[r].pc = "batch"
  /\ runs[r].inflight > 0
  /\ UNCHANGED <<account, now>>
  /\ IF runs[r].inflight > 1
       THEN Proceed(r, [runs[r] EXCEPT !.inflight = @ - 1])
       ELSE \E run \in {afterBatch(runs[r])} : Proceed(r, nextAwait(run))

\* a default summary whose score is zero
defaultSummaryNoScore ==
  [totalIssues |-> 0, high |-> 0, medium |-> 0, low |-> 0,
   complianceScore |-> 0, estSavings |-> 0, scanDuration |-> 0,
   projectStatus |-> [lastScan |-> null, nextScan |-> null, totalScans |-> 0]]

\* the default summary of getSummary
defaultSummary ==
  [totalIssues |-> 0, high |-> 0, medium |-> 0, low |-> 0,
   complianceScore |-> 100, estSavings |-> 0, scanDuration |-> 0,
   projectStatus |-> [lastScan |-> null, nextScan |-> null, totalScans |-> 0]]

\* GET /scan/summary
GetSummary ==
  /\ resp' = IF cachedResults.summary = null
               THEN Response("get_summary", 200,
                      [summary |-> defaultSummary,
                       message |-> "No scan results available. Run a scan to get current security status."])
               ELSE Response("get_summary", 200,
                      [summary    |-> cachedResults.summary,
                       timestamp  |-> cachedResults.lastScanTime,
                       isScanning |-> cachedResults.isScanning])
  /\ UNCHANGED <<cachedResults, runs, account, now>>

\* GET /scan/findings
GetFindings ==
  /\ resp' = IF Len(cachedResults.findings) = 0
               THEN Response("get_findings", 200,
                      [findings |-> <<>>,
                       message  |-> "No security findings available. Run a scan to detect potential issues."])
               ELSE Response("get_findings", 200,
                      [findings   |-> cachedResults.findings,
                       count      |-> Len(cachedResults.findings),
                       timestamp  |-> cachedResults.lastScanTime,
                       isScanning |-> cachedResults.isScanning])
  /\ UNCHANGED <<cachedResults, runs, account, now>>

\* GET /scan/status
GetStatus ==
  /\ resp' = Response("get_status", 200,
               [isScanning    |-> cachedResults.isScanning,
                lastScan      |-> cachedResults.lastScanTime,
                hasResults    |-> cachedResults.summary # null,
                totalFindings |-> Len(cachedResults.findings)])
  /\ UNCHANGED <<cachedResults, runs, account, now>>

\* a clearing that leaves the findings in place
ClearCacheKeepsFindings ==
  /\ cachedResults' = [cachedResults EXCEPT !.summary = null,
                                            !.lastScanTime = null,
                                            !.isScanning = FALSE]
  /\ resp' = Response("clear_cache", 200,
               [message |-> "Scan cache cleared successfully"])
  /\ UNCHANGED <<runs, account, now>>

\* a clearing that forgets the summary
ClearCacheKeepsSummary ==
  /\ cachedResults' = [cachedResults EXCEPT !.findings = <<>>,
                                            !.lastScanTime = null,
                                            !.isScanning = FALSE]
  /\ resp' = Response("clear_cache", 200,
               [message |-> "Scan cache cleared successfully"])
  /\ UNCHANGED <<runs, account, now>>

\* DELETE /scan/cache
ClearCache ==
  /\ cachedResults' = [summary |-> null, findings |-> <<>>,
                       lastScanTime |-> null, isScanning |-> FALSE]
  /\ resp' = Response("clear_cache", 200,
               [message |-> "Scan cache cleared successfully"])
  /\ UNCHANGED <<runs, account, now>>

\* the lines of the report: those of the summary and, for each finding,
\* severity, type, resource and recommendation
reportDocument ==
  [summary  |-> [totalIssues     |-> cachedResults.summary.totalIssues,
                 high            |-> cachedResults.summary.high,
                 medium          |-> cachedResults.summary.medium,
                 low             |-> cachedResults.summary.low,
                 complianceScore |-> cachedResults.summary.complianceScore,
                 estSavings      |-> cachedResults.summary.estSavings,
                 scanDuration    |-> cachedResults.summary.scanDuration],
   findings |-> [j \in 1..Len(cachedResults.findings) |->
                   [severity       |-> cachedResults.findings[j].severity,
                    type           |-> cachedResults.findings[j].type,
                    resource       |-> cachedResults.findings[j].resource,
                    recommendation |->
                      cachedResults.findings[j].recommendation]]]

\* a report handler that renders an empty document when there is no summary
DownloadReportOfNothing ==
  /\ UNCHANGED <<cachedResults, runs, account, now>>
  /\ IF cachedResults.summary = null
       THEN resp' = Response("generate_report", 200,
                      [summary |-> null, findings |-> <<>>])
       ELSE \E pdfkit \in BOOLEAN :
              resp' = IF pdfkit
                        THEN Response("generate_report", 200, reportDocument)
                        ELSE Response("generate_report", 500,
                               [error |-> "Dependency missing",
                                message |-> "pdfkit is not installed. Run npm install in backend to enable reports."])

\* GET /scan/report.pdf.  pdfkit: whether the PDF library can be loaded.
DownloadReport ==
  /\ UNCHANGED <<cachedResults, runs, account, now>>
  /\ IF cachedResults.summary = null
       THEN resp' = Response("generate_report", 400,
                      [error |-> "No data",
                       message |-> "Run a scan to generate a report."])
       ELSE \E pdfkit \in BOOLEAN :
              resp' = IF pdfkit
                        THEN Response("generate_report", 200, reportDocument)
                        ELSE Response("generate_report", 500,
                               [error |-> "Dependency missing",
                                message |-> "pdfkit is not installed. Run npm install in backend to enable reports."])

\* time passes
Tick ==
  /\ now < MaxTime
  /\ now' = now + 1
  /\ UNCHANGED <<cachedResults, runs, account, resp>>

Next ==
  \/ \E session \in Sessions : StartScan(session)
  \/ \E r \in RunIds, ok \in BOOLEAN : ListBucketsDone(r, ok)
  \/ \E r \in RunIds, ok \in BOOLEAN : AccessTestDone(r, ok)
  \/ \E r \in RunIds, ok \in BOOLEAN : ListObjectsDone(r, ok)
  \/ \E r \in RunIds : ReadDone(r)
  \/ GetSummary
  \/ GetFindings
  \/ GetStatus
  \/ ClearCache
  \/ DownloadReport
  \/ Tick

Spec ==
  Init /\ [][Next]_vars

\* a process started against a large account, whose cache is not cleared,
\* followed at one reading of the clock
InitLarge ==
  /\ cachedResults = EmptyCache
  /\ runs = [r \in RunIds |-> NoRun]
  /\ account \in LargeAccounts
  /\ now = 0
  /\ resp = NoResponse

NextLarge ==
  \/ \E session \in Sessions : StartScan(session)
  \/ \E r \in RunIds, ok \in BOOLEAN : ListBucketsDone(r, ok)
  \/ \E r \in RunIds, ok \in BOOLEAN : AccessTestDone(r, ok)
  \/ \E r \in RunIds, ok \in BOOLEAN : ListObjectsDone(r, ok)
  \/ \E r \in RunIds : ReadDone(r)
  \/ GetSummary
  \/ GetFindings
  \/ GetStatus
  \/ DownloadReport

SpecLarge ==
  InitLarge /\ [][NextLarge]_vars

(***************************************************************************)
(* Properties                                                              *)
(***************************************************************************)
\* a session whose credentials are complete and expire after the clock
ValidSessions ==
  {session \in Sessions :
     /\ ~sessionMissing(session)
     /\ ~credentialsIncomplete(session)
     /\ session.awsCredentials.expiration # null
     /\ getTime(session.awsCredentials.expiration) > now}

\* the step begins an activation of runScan
Started(r) ==
  runs[r].pc = "none" /\ runs'[r].pc = "listBuckets"

\* the step ends a start_scan call that had been accepted: its scan
\* returned or threw, or the client could not be constructed
Returned(r) ==
  /\ runs[r].pc \in ActivePcs \cup {"none"}
  /\ runs'[r].pc \in {"done", "failed"}

\* the step is an accepted start_scan for that session
StartAccepted(session) ==
  StartScan(session) /\ \E r \in RunIds : Started(r)

\* the fields of the cache that hold results
CachedData ==
  <<cachedResults.summary, cachedResults.findings,
    cachedResults.lastScanTime>>

\* C1: at every moment at most one scan run is in progress, whatever the
\* interleaving of start_scan and clear_cache calls.
SingleFlight ==
  Cardinality({r \in RunIds : InProgress(r)}) <= 1

\* C2: a start_scan call handled while a scan run is in progress, whatever
\* its session, is answered with the conflict signal and changes neither
\* the cache nor any run; a step that begins a run begins exactly one, from
\* a state in which no run is in progress.
ConflictWhileRunning ==
  [][/\ ((\E r \in RunIds : InProgress(r))
          /\ \E session \in Sessions : StartScan(session))
          => /\ resp'.op = "start_scan"
             /\ resp'.status = 409
             /\ resp'.body.error = "Scan already in progress"
             /\ UNCHANGED <<cachedResults, runs, account, now>>
     /\ \A r \in RunIds :
          Started(r)
            => /\ \A q \in RunIds : ~InProgress(q)
               /\ cachedResults'.isScanning
               /\ \A q \in RunIds \ {r} : runs'[q] = runs[q]]_vars

\* C3: every step in which an accepted start_scan call ends, by success,
\* by a failure of the bucket listing or by a failure before the first
\* storage call, leaves the running flag false; and whenever the flag is
\* false, a start_scan with valid credentials is accepted.
FlagClearedOnReturn ==
  /\ [][\A r \in RunIds :
          Returned(r) => ~cachedResults'.isScanning]_vars
  /\ [](\A session \in ValidSessions :
          (~cachedResults.isScanning /\ \E r \in RunIds : runs[r].pc = "none")
            => ENABLED StartAccepted(session))

\* one scan has failed, another has completed, and the flag is down
ReturnedBothWays ==
  /\ \E r \in RunIds : runs[r].pc = "failed"
  /\ \E r \in RunIds : runs[r].pc = "done"
  /\ ~cachedResults.isScanning

\* C4: when the listing of the buckets fails, the step leaves summary,
\* findings and last-scan instant as they were, leaves the flag false and
\* answers with the scan-failed error.
ListFailureKeepsCache ==
  [][\A r \in RunIds :
       ListBucketsDone(r, FALSE)
         => /\ CachedData' = CachedData
            /\ ~cachedResults'.isScanning
            /\ resp'.status = 500
            /\ resp'.body.error = "Scan failed"]_vars

\* a scan failed at the bucket listing while the cache held results
ListFailedOverResults ==
  /\ resp.op = "start_scan"
  /\ resp.status = 500
  /\ resp.body.message = "Scan failed: ListBuckets failed"
  /\ cachedResults.summary # null
  /\ Len(cachedResults.findings) > 0

\* the object stored under that key in the bucket of that name
StoredObject(name, key) ==
  LET objects == StoredObjects(name)
  IN  objects[CHOOSE j \in 1..Len(objects) : objects[j].Key = key]

\* the resource name of an object in the findings
Resource(name, key) ==
  name \o <<"/">> \o key

\* the resource names of the stored objects whose read fails
UnreadableResources ==
  UNION {{Resource(account[b].Name, account[b].objects[j].Key) :
            j \in {j \in 1..Len(account[b].objects) :
                     account[b].objects[j].read # "ok"}} :
         b \in 1..Len(account)}

\* the object has text in which a pattern matches
Sensitive(obj) ==
  /\ ~shouldSkipFile(obj.Key)
  /\ Len(trim(obj.body)) > 0
  /\ Len(scanTextContent(obj.body)) > 0

\* the run holds a result for the object of that key in its current bucket
HasResult(run, key) ==
  \E j \in 1..Len(run.allFindings) :
    /\ run.allFindings[j].bucket = run.buckets[run.b]
    /\ run.allFindings[j].key = key

\* C5: a read that fails (access denied, encryption key) is isolated: no
\* result and no cached finding comes from the object; between two
\* batches scannedObjects counts every object of every batch processed,
\* the failed ones included; every readable object of those batches with
\* sensitive text has its result; and a run that has listed the buckets
\* never fails: when it ends, the response is the success response and the
\* cache holds its results.
ReadFailureIsolated ==
  /\ [](\A r \in RunIds :
          LET run == runs[r]
          IN  /\ \A j \in 1..Len(run.allFindings) :
                   StoredObject(run.allFindings[j].bucket,
                                run.allFindings[j].key).read = "ok"
              /\ run.pc = "batch"
                   => /\ run.scannedObjects
                           = run.totalObjects - Len(run.objects) + run.i
                      /\ \A j \in 1..run.i :
                           HasResult(run, run.objects[j].Key)
                             <=> /\ run.objects[j].read = "ok"
                                 /\ Sensitive(run.objects[j]))
  /\ [](\A j \in 1..Len(cachedResults.findings) :
          cachedResults.findings[j].resource \notin UnreadableResources)
  /\ [][\A r \in RunIds :
          runs[r].pc \in {"access", "listObjects", "batch"}
            => /\ runs'[r].pc # "failed"
               /\ runs'[r].pc = "done"
                    => /\ resp'.status = 200
                       /\ cachedResults'.summary = resp'.body.summary
                       /\ cachedResults'.summary # null
                       /\ cachedResults'.lastScanTime = toISOString(now)
                       /\ ~cachedResults'.isScanning]_vars

\* a scan of the large bucket completed: the object after the denied one
\* and the object of the second batch are among the cached findings
DeniedReadSurvived ==
  /\ resp.op = "start_scan"
  /\ resp.status = 200
  /\ \E j \in 1..Len(cachedResults.findings) :
       cachedResults.findings[j].resource
         = Resource(BigBucket.Name, MailObject.Key)
  /\ \E j \in 1..Len(cachedResults.findings) :
       cachedResults.findings[j].resource
         = Resource(BigBucket.Name, CardObject.Key)
  /\ Resource(BigBucket.Name, DeniedObject.Key) \in UnreadableResources

\* the summaries in the cache and in the last response
Summaries ==
  (IF cachedResults.summary # null THEN {cachedResults.summary} ELSE {})
  \cup (IF "summary" \in DOMAIN resp.body THEN {resp.body.summary} ELSE {})

\* C6: in every summary, high + medium + low equals totalIssues.
SeveritiesAddUp ==
  \A summary \in Summaries :
    summary.high + summary.medium + summary.low = summary.totalIssues

\* a cached summary with issues of the three severities
AllSeveritiesCached ==
  /\ cachedResults.summary # null
  /\ cachedResults.summary.high > 0
  /\ cachedResults.summary.medium > 0
  /\ cachedResults.summary.low > 0

\* C7: in every summary, complianceScore is at least 50 and at most 100.
ScoreInRange ==
  \A summary \in Summaries :
    /\ 50 <= summary.complianceScore
    /\ summary.complianceScore <= 100

\* a cached summary whose penalty is more than 50 points
ScoreAtFloor ==
  /\ cachedResults.summary # null
  /\ cachedResults.summary.high * 10 + cachedResults.summary.medium * 5
       + cachedResults.summary.low > 50
  /\ cachedResults.summary.complianceScore = 50

\* C8: a get_summary that follows clear_cache returns the default summary
\* (no issues of any severity, score 100, no savings), and a get_findings
\* that follows clear_cache returns the empty list, whatever the state in
\* which the cache was cleared.
ClearedReadsDefault ==
  [][/\ (resp.op = "clear_cache" /\ GetSummary)
          => /\ resp'.body.summary.totalIssues = 0
             /\ resp'.body.summary.high = 0
             /\ resp'.body.summary.medium = 0
             /\ resp'.body.summary.low = 0
             /\ resp'.body.summary.complianceScore = 100
             /\ resp'.body.summary.estSavings = 0
     /\ (resp.op = "clear_cache" /\ GetFindings)
          => resp'.body.findings = <<>>]_vars

\* the default summary was returned after a scan of a bucket had completed:
\* its results were cleared
ClearedSummaryRead ==
  /\ resp.op = "get_summary"
  /\ resp.body.summary.complianceScore = 100
  /\ resp.body.summary.projectStatus.totalScans = 0
  /\ Len(account) > 0
  /\ \E r \in RunIds : runs[r].pc = "done"

\* C9: a start_scan call whose credentials do not expire strictly after
\* the clock starts no run, leaves the cache unchanged and never raises the
\* flag: a run is started only when expiration > now holds.
ExpiredNeverStarts ==
  [][(\E session \in Sessions :
        /\ session.present
        /\ session.awsCredentials # null
        /\ ~(/\ session.awsCredentials.expiration # null
             /\ getTime(session.awsCredentials.expiration) > now)
        /\ StartScan(session))
       => UNCHANGED <<cachedResults, runs>>]_vars

\* no session, no credentials, or credentials that lack one of the keys
Malformed(session) ==
  \/ ~session.present
  \/ session.awsCredentials = null
  \/ ~session.awsCredentials.accessKeyId
  \/ ~session.awsCredentials.secretAccessKey
  \/ ~session.awsCredentials.sessionToken

\* complete credentials whose expiration has passed
Expired(session) ==
  /\ ~Malformed(session)
  /\ session.awsCredentials.expiration # null
  /\ getTime(session.awsCredentials.expiration) <= now

\* C10, as stated: a start_scan call with no session, no credentials or
\* credentials that lack a key is always answered with an authorization
\* failure, without side effects.
MalformedAlwaysUnauthorized ==
  [][(\E session \in Sessions : Malformed(session) /\ StartScan(session))
       => /\ resp'.status = 401
          /\ resp'.body.error \in {"Unauthorized", "Invalid credentials"}
          /\ UNCHANGED <<cachedResults, runs>>]_vars

\* C10: a start_scan call with no session, no credentials or credentials
\* that lack a key starts no run and leaves cache and flag as they were;
\* while a scan is flagged running it is answered with the conflict
\* signal, otherwise with an authorization failure that no call with
\* expired credentials is answered with.
MalformedRejected ==
  [][(\E session \in Sessions : Malformed(session) /\ StartScan(session))
       => /\ UNCHANGED <<cachedResults, runs, account, now>>
          /\ resp'.op = "start_scan"
          /\ IF cachedResults.isScanning
               THEN resp'.status = 409
               ELSE /\ resp'.status = 401
                    /\ resp'.body.error
                         \in {"Unauthorized", "Invalid credentials"}
                    /\ \A session \in Sessions :
                         Expired(session) => ~StartScan(session)]_vars

\* credentials that lack a key were refused after a scan had completed
IncompleteRefused ==
  /\ resp.op = "start_scan"
  /\ resp.status = 401
  /\ resp.body.error = "Invalid credentials"
  /\ ~cachedResults.isScanning
  /\ cachedResults.summary # null

\* the key ends in one of the blocklisted extensions, letters compared
\* without regard to case
EndsInBinaryExtension(key) ==
  \E e \in 1..Len(binaryExtensions) :
    LET extension == binaryExtensions[e]
        from      == Len(key) - Len(extension)
    IN  /\ from >= 0
        /\ \A j \in 1..Len(extension) :
             ToLowerChar(key[from + j]) = extension[j]

\* C11: no GetObject call is issued for an object whose key ends in a
\* blocklisted binary extension, in whatever case, and no result of a run
\* comes from such an object.
BinaryNeverRead ==
  \A r \in RunIds :
    /\ \A j \in 1..Len(runs[r].reading) :
         ~EndsInBinaryExtension(runs[r].reading[j])
    /\ \A j \in 1..Len(runs[r].allFindings) :
         ~EndsInBinaryExtension(runs[r].allFindings[j].key)

\* the step is the commit of a scan
Committed(r) ==
  InProgress(r) /\ runs'[r].pc = "done"

\* C12: get_summary returns the cached summary, or the fixed default when
\* there is none; the cached summary is the one of the last commit: every
\* commit stores the summary it answers with, and apart from commits only
\* clear_cache changes it, to none.  A failed run or a rejected start
\* leaves it as it was.
SummaryOfLastCommit ==
  [][/\ GetSummary
          => resp'.body.summary
               = IF cachedResults.summary = null
                   THEN [totalIssues |-> 0, high |-> 0, medium |-> 0,
                         low |-> 0, complianceScore |-> 100,
                         estSavings |-> 0, scanDuration |-> 0,
                         projectStatus |-> [lastScan |-> null,
                                            nextScan |-> null,
                                            totalScans |-> 0]]
                   ELSE cachedResults.summary
     /\ \A r \in RunIds :
          Committed(r)
            => /\ resp'.status = 200
               /\ cachedResults'.summary # null
               /\ cachedResults'.summary = resp'.body.summary
     /\ cachedResults'.summary # cachedResults.summary
          => \/ \E r \in RunIds : Committed(r)
             \/ resp'.op = "clear_cache" /\ cachedResults'.summary = null
     /\ (resp'.op = "start_scan" /\ resp'.status >= 400)
          => cachedResults'.summary = cachedResults.summary]_vars

\* the summary of a completed scan was returned after another scan failed
SummaryReadAfterFailure ==
  /\ resp.op = "get_summary"
  /\ resp.body.summary.totalIssues > 0
  /\ resp.body.summary = cachedResults.summary
  /\ \E r \in RunIds : runs[r].pc = "failed"

\* C13: the summary committed by the n-th completed scan of the process
\* reports totalScans = n.
TotalScansCounts ==
  [][\A r \in RunIds :
       Committed(r)
         => cachedResults'.summary.projectStatus.totalScans
              = Cardinality({q \in RunIds : runs'[q].pc = "done"})]_vars

\* C14: generate_report leaves flag, summary, findings and timestamp as
\* they were, whether it succeeds or fails; when there is no cached summary
\* it fails with the no-data error, which is none of the errors of
\* start_scan.
ReportNeedsData ==
  [][DownloadReport
       => /\ UNCHANGED <<cachedResults, runs>>
          /\ cachedResults.summary = null
               => /\ resp'.status = 400
                  /\ resp'.body.error = "No data"
                  /\ resp'.body.error
                       \notin {"Scan failed", "Scan already in progress",
                               "Unauthorized", "Invalid credentials",
                               "Expired credentials"}]_vars

\* a report was refused in a process in which no scan has completed, one
\* having failed
ReportRefused ==
  /\ resp.op = "generate_report"
  /\ resp.status = 400
  /\ \A r \in RunIds : runs[r].pc # "done"
  /\ \E r \in RunIds : runs[r].pc = "failed"

\* C15: the findings of a scan over a single bucket with a single object
\* whose content is one 16-digit Visa number are exactly one finding, of
\* severity High, with a recommendation and with exactly one sample.
VisaYieldsOneFinding ==
  (account = <<CardBucket>> /\ Len(cachedResults.findings) > 0)
    => /\ Len(cachedResults.findings) = 1
       /\ cachedResults.findings[1].severity = "High"
       /\ cachedResults.findings[1].recommendation # ""
       /\ Len(cachedResults.findings[1].details.samples) = 1

\* the objects of the bucket that a run is to list: the first 200, or all
\* of them when they are fewer
FirstTwoHundred(name) ==
  LET stored == StoredObjects(name)
  IN  SubSeq(stored, 1, IF Len(stored) < 200 THEN Len(stored) ELSE 200)

\* C16: while a run reads the objects of a bucket of n objects, the objects
\* it has listed are the first min(n, 200) of the bucket, it has counted
\* that many for the bucket, the batches before the current one are counted
\* as scanned, and every GetObject call and every result is for one of
\* those objects.
ListingCapped ==
  \A r \in RunIds :
    LET run == runs[r]
    IN  run.pc = "batch"
          => LET listed == FirstTwoHundred(run.buckets[run.b])
             IN  /\ run.objects = listed
                 /\ run.i < Len(listed)
                 /\ run.totalObjects >= Len(listed)
                 /\ run.scannedObjects
                      = run.totalObjects - Len(listed) + run.i
                 /\ \A j \in 1..Len(run.reading) :
                      \E q \in 1..Len(listed) :
                        listed[q].Key = run.reading[j]
                 /\ \A j \in 1..Len(run.allFindings) :
                      run.allFindings[j].bucket = run.buckets[run.b]
                        => \E q \in 1..Len(listed) :
                             listed[q].Key = run.allFindings[j].key

\* a run reads the 200th object of the bucket of 250, the last of the 200
\* it has listed, having counted the 190 before its batch
LastListedRead ==
  \E r \in RunIds :
    /\ runs[r].pc = "batch"
    /\ Len(StoredObjects(runs[r].buckets[runs[r].b])) = WideBucketSize
    /\ Len(runs[r].objects) = 200
    /\ runs[r].scannedObjects = 190
    /\ runs[r].reading = <<LastListedObject.Key>>

\* C17: in an account without buckets, the step in which the bucket
\* listing of a run succeeds ends the run as completed: the response is
\* the success response, the committed summary has no issue of any
\* severity, score 100 and no savings, the findings are empty and the flag
\* is false; and no run in that account ever tests or lists a bucket or
\* reads an object.
NoBucketsCompletes ==
  /\ [][\A r \in RunIds :
          (Len(account) = 0 /\ ListBucketsDone(r, TRUE))
            => /\ runs'[r].pc = "done"
               /\ resp'.op = "start_scan"
               /\ resp'.status = 200
               /\ resp'.body.findingsCount = 0
               /\ cachedResults'.summary = resp'.body.summary
               /\ cachedResults'.summary.totalIssues = 0
               /\ cachedResults'.summary.high = 0
               /\ cachedResults'.summary.medium = 0
               /\ cachedResults'.summary.low = 0
               /\ cachedResults'.summary.complianceScore = 100
               /\ cachedResults'.summary.estSavings = 0
               /\ cachedResults'.findings = <<>>
               /\ ~cachedResults'.isScanning]_vars
  /\ [](Len(account) = 0
          => \A r \in RunIds :
               /\ runs[r].pc \notin {"access", "listObjects", "batch"}
               /\ runs[r].reading = <<>>
               /\ runs[r].inflight = 0)

\* a scan of an account without buckets has completed
NoBucketsCompleted ==
  /\ Len(account) = 0
  /\ resp.op = "start_scan"
  /\ resp.status = 200
  /\ cachedResults.summary # null
  /\ cachedResults.summary.complianceScore = 100
  /\ \E r \in RunIds : runs[r].pc = "done"

\* a process started against an account with the bucket of more than one
\* batch, whose cache may be cleared
InitBig ==
  /\ cachedResults = EmptyCache
  /\ runs = [r \in RunIds |-> NoRun]
  /\ account = <<BigBucket>>
  /\ now = 0
  /\ resp = NoResponse

SpecBig ==
  InitBig /\ [][Next]_vars

RECURSIVE FetchesInFlight(_)
\* the GetObject calls in flight in the runs 1..n
FetchesInFlight(n) ==
  IF n = 0 THEN 0 ELSE runs[n].inflight + FetchesInFlight(n - 1)

\* C18: at every moment at most 10 fetch-and-scan operations are in flight
\* in the process, whatever calls of start_scan and clear_cache were made.
FetchesCapped ==
  FetchesInFlight(MaxRuns) <= 10

\* C19: the running flag, which get_status returns as isScanning, is true
\* exactly while a scan run is in progress.
FlagTracksRuns ==
  cachedResults.isScanning <=> \E r \in RunIds : InProgress(r)

\* C20: a run that is in flight when clear_cache returns does not
\* repopulate the cache: when such a run commits before any start_scan has
\* been accepted since the clear, the cache keeps its defaults (no summary,
\* no findings, no timestamp).
ClearedStaysCleared ==
  [][\A r \in RunIds :
       (/\ resp.op = "clear_cache"
        /\ ~cachedResults.isScanning
        /\ Committed(r))
         => /\ cachedResults'.summary = null
            /\ cachedResults'.findings = <<>>
            /\ cachedResults'.lastScanTime = null]_vars

\* C21: within a run the batches of a bucket follow one another: while a
\* read of the current batch is still outstanding after a step, the step
\* starts no read of another batch and moves to no other batch or bucket;
\* and the reads in flight are reads of objects among the next at most 10
\* objects of the listing, in listing order.
BatchesSequential ==
  /\ [][\A r \in RunIds :
          (runs[r].pc = "batch" /\ runs[r].inflight > 1)
            => \/ runs'[r] = runs[r]
               \/ runs'[r] = [runs[r] EXCEPT !.inflight = @ - 1]]_vars
  /\ [](\A r \in RunIds :
          runs[r].pc = "batch"
            => LET run  == runs[r]
                   last == IF run.i + 10 < Len(run.objects)
                             THEN run.i + 10 ELSE Len(run.objects)
                   pos(j) == CHOOSE p \in 1..Len(run.objects) :
                               run.objects[p].Key = run.reading[j]
               IN  /\ run.i % 10 = 0
                   /\ run.inflight <= Len(run.reading)
                   /\ Len(run.reading) <= 10
                   /\ \A j \in 1..Len(run.reading) :
                        /\ \E p \in (run.i + 1)..last :
                             run.objects[p].Key = run.reading[j]
                        /\ pos(j) \in (run.i + 1)..last
                        /\ j > 1 => pos(j - 1) < pos(j))

\* the reads of a second batch are in flight after a first batch in which
\* a read failed
SecondBatchReading ==
  \E r \in RunIds :
    /\ runs[r].pc = "batch"
    /\ runs[r].i = 10
    /\ runs[r].inflight > 0
    /\ runs[r].scannedObjects >= 10
    /\ \E j \in 1..10 : runs[r].objects[j].read = "AccessDenied"

\* C22: within a run the buckets are taken one at a time, in the order of
\* the bucket listing: a run turns to the next bucket only by listing it,
\* with no read outstanding and every object listed so far scanned; the
\* objects it holds and the reads it has in flight are those of its
\* current bucket.
BucketsSequential ==
  /\ [][\A r \in RunIds :
          (runs'[r].pc \in ActivePcs /\ runs'[r].b # runs[r].b)
            => /\ runs'[r].b = runs[r].b + 1
               /\ runs'[r].pc = "listObjects"
               /\ runs[r].inflight <= 1
               /\ runs'[r].inflight = 0
               /\ runs'[r].scannedObjects = runs'[r].totalObjects]_vars
  /\ [](\A r \in RunIds :
          runs[r].pc \in {"listObjects", "batch"}
            => LET run == runs[r]
               IN  /\ run.b \in 1..Len(account)
                   /\ \A j \in 1..Len(account) :
                        run.buckets[j] = account[j].Name
                   /\ run.pc = "listObjects"
                        => /\ run.inflight = 0
                           /\ run.reading = <<>>
                           /\ run.scannedObjects = run.totalObjects
                   /\ run.pc = "batch"
                        => /\ \A j \in 1..Len(run.objects) :
                                run.objects[j] = account[run.b].objects[j]
                           /\ \A j \in 1..Len(run.reading) :
                                \E p \in 1..Len(run.objects) :
                                  run.objects[p].Key = run.reading[j])

\* a run reads objects of its second bucket, with results of its first
SecondBucketReading ==
  \E r \in RunIds :
    /\ runs[r].pc = "batch"
    /\ runs[r].b = 2
    /\ runs[r].inflight > 0
    /\ \E j \in 1..Len(runs[r].allFindings) :
         runs[r].allFindings[j].bucket = account[1].Name

\* storage calls return or fail: while a call is outstanding, a call is
\* eventually answered
StorageAnswers ==
  WF_vars(\E r \in RunIds :
            \/ \E ok \in BOOLEAN : ListBucketsDone(r, ok)
            \/ \E ok \in BOOLEAN : AccessTestDone(r, ok)
            \/ \E ok \in BOOLEAN : ListObjectsDone(r, ok)
            \/ ReadDone(r))

\* the steps that start, disturb or advance a scan; the other requests and
\* the clock change neither an activation nor the flag
NextFair ==
  \/ \E session \in Sessions : StartScan(session)
  \/ \E r \in RunIds, ok \in BOOLEAN : ListBucketsDone(r, ok)
  \/ \E r \in RunIds, ok \in BOOLEAN : AccessTestDone(r, ok)
  \/ \E r \in RunIds, ok \in BOOLEAN : ListObjectsDone(r, ok)
  \/ \E r \in RunIds : ReadDone(r)
  \/ ClearCache

SpecFair ==
  Init /\ [][NextFair]_vars /\ StorageAnswers

\* C23: if every storage call eventually returns or fails, every scan that
\* was accepted eventually ends, completed or failed, and whenever the
\* running flag is up it eventually comes down.
ScanTerminates ==
  /\ \A r \in RunIds :
       InProgress(r) ~> runs[r].pc \in {"done", "failed"}
  /\ cachedResults.isScanning ~> ~cachedResults.isScanning

\* every scan the process accepts has ended, one of them after reading
\* objects, and the flag is down
AllScansEnded ==
  /\ \A r \in RunIds : runs[r].pc \in {"done", "failed"}
  /\ ~cachedResults.isScanning
  /\ Len(cachedResults.findings) > 0

ScoreFromCounts ==
  /\ \A summary \in Summaries :
       LET penalty == summary.high * 10 + summary.medium * 5 + summary.low
       IN  /\ summary.complianceScore
                = (IF 100 - penalty > 50 THEN 100 - penalty ELSE 50)
           /\ summary.estSavings
                = summary.high * 20 + summary.medium * 5 + summary.low
  /\ \A s1, s2 \in Summaries :
       (s1.high = s2.high /\ s1.medium = s2.medium /\ s1.low = s2.low)
         => /\ s1.complianceScore = s2.complianceScore
            /\ s1.estSavings = s2.estSavings

\* a second scan has answered with a summary whose score, above the floor,
\* is that of the summary cached
ScoredTwice ==
  /\ \A r \in 1..2 : runs[r].pc = "done"
  /\ resp.op = "start_scan"
  /\ resp.status = 200
  /\ resp.body.summary.medium > 0
  /\ resp.body.summary.complianceScore \in 51..99
  /\ cachedResults.summary.complianceScore
       = resp.body.summary.complianceScore

\* the matches of the stored object of that resource name
MatchesAt(resource) ==
  LET b == CHOOSE b \in 1..Len(account) :
             \E o \in 1..Len(account[b].objects) :
               Resource(account[b].Name, account[b].objects[o].Key) = resource
      o == CHOOSE o \in 1..Len(account[b].objects) :
             Resource(account[b].Name, account[b].objects[o].Key) = resource
  IN  scanTextContent(account[b].objects[o].body)

\* the position of a rule in the registry
RegistryIndex(key) ==
  CHOOSE k \in 1..Len(patterns) : patterns[k].key = key

\* C26: the findings cached give, for each object in them, one finding
\* for each severity present among the object's matches and no other:
\* at most one per object and severity, hence at most three per object.
\* The count of a finding is the number of the object's matches of its
\* severity, and its rule is the label of the first of them in the order
\* of the registry.
FindingsPerSeverity ==
  LET findings == cachedResults.findings
  IN  \A f \in 1..Len(findings) :
        LET matches == MatchesAt(findings[f].resource)
            mine    == {m \in 1..Len(matches) :
                          matches[m].severity = findings[f].severity}
            first   == CHOOSE m \in mine :
                         \A n \in mine :
                           RegistryIndex(matches[m].pattern)
                             <= RegistryIndex(matches[n].pattern)
        IN  /\ findings[f].severity \in {"High", "Medium", "Low"}
            /\ \A g \in 1..Len(findings) :
                 (/\ findings[g].resource = findings[f].resource
                  /\ findings[g].severity = findings[f].severity) => g = f
            /\ Cardinality({g \in 1..Len(findings) :
                              findings[g].resource = findings[f].resource})
                 <= 3
            /\ \A m \in 1..Len(matches) :
                 \E g \in 1..Len(findings) :
                   /\ findings[g].resource = findings[f].resource
                   /\ findings[g].severity = matches[m].severity
            /\ mine # {}
            /\ findings[f].details.count = Cardinality(mine)
            /\ findings[f].details.rule = matches[first].label

\* an object has a finding of each severity, one of them counting several
\* matches
ThreeFindingsOfOneObject ==
  \E f \in 1..Len(cachedResults.findings) :
    /\ cachedResults.findings[f].details.count > 1
    /\ Cardinality({g \in 1..Len(cachedResults.findings) :
                      cachedResults.findings[g].resource
                        = cachedResults.findings[f].resource}) = 3

RECURSIVE CountSum(_, _)
\* the sum of details.count over the findings whose severity is among those
CountSum(findings, severities) ==
  IF findings = <<>>
    THEN 0
    ELSE (IF Head(findings).severity \in severities
            THEN Head(findings).details.count ELSE 0)
         + CountSum(Tail(findings), severities)

\* C27: the findings and the summary of the cache agree: for each severity
\* the counts of the findings of that severity add up to the summary's
\* count for it, and the counts of all the findings add up to totalIssues.
FindingsMatchSummary ==
  cachedResults.summary # null
    => LET summary  == cachedResults.summary
           findings == cachedResults.findings
       IN  /\ CountSum(findings, {"High"}) = summary.high
           /\ CountSum(findings, {"Medium"}) = summary.medium
           /\ CountSum(findings, {"Low"}) = summary.low
           /\ CountSum(findings, {"High", "Medium", "Low"})
                = summary.totalIssues
           /\ \A f \in 1..Len(findings) :
                findings[f].severity \in {"High", "Medium", "Low"}

\* the cache holds findings of one severity for two objects, one of them
\* counting several matches
SeveritySummedOverObjects ==
  /\ cachedResults.summary # null
  /\ \E f, g \in 1..Len(cachedResults.findings) :
       /\ cachedResults.findings[f].severity
            = cachedResults.findings[g].severity
       /\ cachedResults.findings[f].resource
            # cachedResults.findings[g].resource
       /\ cachedResults.findings[f].details.count > 1

\* the text occurs in the content
OccursIn(sample, content) ==
  \E start \in 1..(Len(content) - Len(sample) + 1) :
    SubSeq(content, start, start + Len(sample) - 1) = sample

\* C28: in every state of a run, each result gathered has at least one
\* match, and each match counts at least one occurrence, the first of
\* which is a text that occurs in the content of the object.
ResultsHaveMatches ==
  \A r \in RunIds :
    \A j \in 1..Len(runs[r].allFindings) :
      LET result  == runs[r].allFindings[j]
          content == StoredObject(result.bucket, result.key).body
      IN  /\ Len(result.matches) >= 1
          /\ \A m \in 1..Len(result.matches) :
               /\ result.matches[m].count >= 1
               /\ Len(result.matches[m].samples) >= 1
               /\ OccursIn(result.matches[m].samples[1], content)

\* a run has gathered a result in a batch whose other objects, read or
\* not, gave none
ResultAmongClean ==
  \E r \in RunIds :
    /\ InProgress(r)
    /\ Len(runs[r].allFindings) >= 1
    /\ runs[r].scannedObjects >= 10
    /\ Len(runs[r].allFindings) < runs[r].scannedObjects

\* the occurrences of each rule of the registry in each stored text
storedOccurrences ==
  [text \in StoredTexts |->
     [k \in 1..Len(patterns) |-> match(text, patterns[k].regex)]]

\* C29: in every state of a run, each match gathered holds as samples the
\* first occurrences of its rule in the content of the object, as many as
\* the smaller of its count and 3, hence at most 3; and each finding cached
\* holds the samples of the first two matches of its severity for its
\* object, or of the only one, hence at most 6 samples.
SamplesCapped ==
  /\ \A r \in RunIds :
       \A j \in 1..Len(runs[r].allFindings) :
         LET result  == runs[r].allFindings[j]
             content == StoredObject(result.bucket, result.key).body
         IN  \A m \in 1..Len(result.matches) :
               LET found == storedOccurrences[content]
                              [RegistryIndex(result.matches[m].pattern)]
                   held  == result.matches[m].samples
               IN  /\ result.matches[m].count = Len(found)
                   /\ Len(held) <= 3
                   /\ Len(held) = IF Len(found) < 3 THEN Len(found) ELSE 3
                   /\ \A s \in 1..Len(held) : held[s] = found[s]
  /\ \A f \in 1..Len(cachedResults.findings) :
       LET finding == cachedResults.findings[f]
           matches == MatchesAt(finding.resource)
           mine    == SelectSeq(matches,
                                LAMBDA m : m.severity = finding.severity)
       IN  /\ Len(finding.details.samples) <= 6
           /\ Len(mine) >= 1
           /\ finding.details.samples
                = IF Len(mine) = 1
                    THEN mine[1].samples
                    ELSE mine[1].samples \o mine[2].samples

\* a finding cached counts three matches and holds six samples, three of
\* each of two matches of more than three occurrences
SixSamplesCached ==
  \E f \in 1..Len(cachedResults.findings) :
    LET finding == cachedResults.findings[f]
        matches == MatchesAt(finding.resource)
    IN  /\ finding.details.count >= 3
        /\ Len(finding.details.samples) = 6
        /\ Cardinality({m \in 1..Len(matches) :
                          /\ matches[m].severity = finding.severity
                          /\ matches[m].count > 3}) >= 2

\* C30: in every state of a run, for every k >= 1 such that the run has
\* scanned at least 50*k objects, a progress signal has been emitted at a
\* count of scanned objects of 50*k or more.
ProgressEveryFifty ==
  \A r \in RunIds :
    InProgress(r)
      => \A k \in 1..(runs[r].scannedObjects \div ProgressEvery) :
           \E p \in 1..Len(runs[r].progress) :
             runs[r].progress[p] >= ProgressEvery * k

\* C31: a step in which the listing of the objects of a bucket fails
\* counts no object and gathers no result for that bucket, and does not end
\* the run in failure: it leaves the run waiting for the listing of the next
\* bucket, or, at the last bucket, ends it with the cache holding the
\* summary and the findings of what the run has gathered, the flag false
\* and the answer of a completed scan.  No later step of the bucket loop
\* ends the run in failure either.
ListObjectsFailureIsolated ==
  /\ [][\A r \in RunIds :
          ListObjectsDone(r, FALSE)
            => IF runs[r].b < Len(runs[r].buckets)
                 THEN /\ runs'[r] = [runs[r] EXCEPT !.b = @ + 1, !.i = 0,
                                                    !.objects = <<>>]
                      /\ runs'[r].pc = "listObjects"
                      /\ UNCHANGED cachedResults
                 ELSE /\ runs'[r].pc = "done"
                      /\ cachedResults'.summary # null
                      /\ cachedResults'.summary.totalIssues
                           = countMatches(runs[r].allFindings, 1)
                      /\ cachedResults'.findings
                           = convertToFindings(runs[r].allFindings)
                      /\ cachedResults'.lastScanTime # null
                      /\ ~cachedResults'.isScanning
                      /\ resp'.op = "start_scan"
                      /\ resp'.status = 200]_vars
  /\ [][\A r \in RunIds :
          runs[r].pc \in {"listObjects", "batch"}
            => runs'[r].pc # "failed"]_vars

\* a scan of two buckets has completed and the cache holds findings of the
\* objects of the second bucket and of no object of the first, which has a
\* readable object with sensitive content
LaterBucketCachedAlone ==
  /\ Len(account) = 2
  /\ \E o \in 1..Len(account[1].objects) :
       /\ account[1].objects[o].read = "ok"
       /\ ~shouldSkipFile(account[1].objects[o].Key)
       /\ scanTextContent(account[1].objects[o].body) # <<>>
  /\ cachedResults.summary # null
  /\ Len(cachedResults.findings) > 0
  /\ \A f \in 1..Len(cachedResults.findings) :
       \E o \in 1..Len(account[2].objects) :
         cachedResults.findings[f].resource
           = Resource(account[2].Name, account[2].objects[o].Key)

\* C32: in every state the cache has a summary exactly when it has the
\* instant of the last scan, and it has no findings when it has no summary;
\* and an answer of get_status never has hasResults false together with a
\* count of findings above zero or with an instant of the last scan.
CacheFieldsConsistent ==
  /\ (cachedResults.summary = null) <=> (cachedResults.lastScanTime = null)
  /\ cachedResults.summary = null => cachedResults.findings = <<>>
  /\ resp.op = "get_status"
       => (~resp.body.hasResults
             => /\ resp.body.totalFindings = 0
                /\ resp.body.lastScan = null)

\* the status was read with no results and a scan running, after a scan of
\* an account with buckets had completed and the cache had been cleared
StatusReadAfterClearing ==
  /\ resp.op = "get_status"
  /\ ~resp.body.hasResults
  /\ resp.body.isScanning
  /\ \E r \in RunIds : runs[r].pc = "done"
  /\ Len(account) > 0

\* C33: a start_scan call handled while a scan run is in progress is
\* answered with the conflict signal, whatever its session and credentials;
\* and a start_scan call is answered with an authorization or an
\* expired-credentials error (status 401) only when no run is in progress.
ConflictBeforeCredentials ==
  [][(\E session \in Sessions : StartScan(session))
       => /\ (\E r \in RunIds : InProgress(r))
               => /\ resp'.op = "start_scan"
                  /\ resp'.status = 409
          /\ (resp'.op = "start_scan" /\ resp'.status = 401)
               => \A r \in RunIds : ~InProgress(r)]_vars

\* the stored content of the object of that resource name
ContentAt(resource) ==
  LET b == CHOOSE b \in 1..Len(account) :
             \E o \in 1..Len(account[b].objects) :
               Resource(account[b].Name, account[b].objects[o].Key) = resource
      o == CHOOSE o \in 1..Len(account[b].objects) :
             Resource(account[b].Name, account[b].objects[o].Key) = resource
  IN  account[b].objects[o].body

\* the rules of that severity that have an occurrence in the content
RulesFound(content, severities) ==
  {k \in 1..Len(patterns) :
     /\ patterns[k].severity \in severities
     /\ storedOccurrences[content][k] # <<>>}

\* C34: the UPI rule and the e-mail rule have one expression, and in every
\* state each result a run has gathered holds a match of the one exactly
\* when it holds a match of the other: then it holds exactly one match of
\* each, both with the count of the occurrences of the expression in the
\* content and with the same samples.  In the cache each of the two is
\* counted: the Low finding of an object counts every Low rule with an
\* occurrence in its content, the UPI rule and the e-mail rule as two; the
\* summary's low is the sum of these counts and totalIssues the sum of the
\* counts of all the findings.
EmailAndUpiSeparate ==
  /\ patterns[RegistryIndex("upi")].regex
       = patterns[RegistryIndex("email")].regex
  /\ \A r \in RunIds :
       \A j \in 1..Len(runs[r].allFindings) :
         LET matches == runs[r].allFindings[j].matches
             content == StoredObject(runs[r].allFindings[j].bucket,
                                     runs[r].allFindings[j].key).body
             found   == storedOccurrences[content][RegistryIndex("email")]
             upi     == {m \in 1..Len(matches) : matches[m].pattern = "upi"}
             email   == {m \in 1..Len(matches) :
                           matches[m].pattern = "email"}
         IN  IF found = <<>>
               THEN upi = {} /\ email = {}
               ELSE /\ Cardinality(upi) = 1
                    /\ Cardinality(email) = 1
                    /\ \A u \in upi :
                         \A e \in email :
                           /\ matches[u].count = Len(found)
                           /\ matches[e].count = Len(found)
                           /\ matches[u].samples = matches[e].samples
  /\ cachedResults.summary # null
       => /\ \A f \in 1..Len(cachedResults.findings) :
               cachedResults.findings[f].details.count
                 = Cardinality(
                     RulesFound(ContentAt(cachedResults.findings[f].resource),
                                {cachedResults.findings[f].severity}))
          /\ cachedResults.summary.low
               = CountSum(cachedResults.findings, {"Low"})
          /\ cachedResults.summary.totalIssues
               = CountSum(cachedResults.findings, {"High", "Medium", "Low"})

\* the cache holds the Low finding of an object whose content has several
\* addresses, counted once as UPI identifiers and once as e-mail addresses
AddressesCountedTwice ==
  \E f \in 1..Len(cachedResults.findings) :
    LET finding == cachedResults.findings[f]
        content == ContentAt(finding.resource)
    IN  /\ finding.severity = "Low"
        /\ Len(storedOccurrences[content][RegistryIndex("email")]) > 1
        /\ {RegistryIndex("upi"), RegistryIndex("email")}
             \subseteq RulesFound(content, {"Low"})
        /\ finding.details.count >= 3
        /\ cachedResults.summary.low >= finding.details.count

====
